---- MODULE Spec2Model ----
(***************************************************************************)
(* K-IRC channel relay protocol: leader leases in the coordination store,  *)
(* leader based fan-out over per-identity broker topics, channel keys and  *)
(* the RPC correlation table.                                              *)
(*                                                                         *)
(* Each operation is modelled from the text of the function implementing   *)
(* it.  A call into another component (durable store, message             *)
(* construction, handler dispatch) is taken to deliver the arguments that  *)
(* the callee's signature names, and to succeed unless the operation       *)
(* modelled handles its failure.  Configuration gives every node the topic *)
(* names of the address convention: data-out = out-{user}, rpc-in =        *)
(* rpc-in-{user}.                                                          *)
(*                                                                         *)
(* The specifications share the variables:                                 *)
(*   Spec        the relay protocol (connect, send, receive/relay, rotate) *)
(*   SpecForeign the send path with malformed key updates arriving         *)
(*   SpecRace    the send and receive paths while no lease expires         *)
(*   SpecRebind  the send path with key updates for known key ids arriving *)
(*   SpecLease   register_channel_leader at the grain of its store calls   *)
(*   SpecReq     KafkaClient.request and the RPC consume loop              *)
(*   SpecFetch   connect, the history fetch and request()                  *)
(*   SpecRotate  action_rotate_keys at the grain of its suspension points  *)
(*   SpecHistory the answering side of the history fetch                   *)
(*   SpecTyping  the send path with a failing typing update                *)
(*   SpecTtl     the lease with its TTL, renewal and resignation           *)
(*   SpecConsume the data and RPC consume loops of KafkaClient             *)
(*   SpecPubSub  the pub/sub loop of CacheClient                           *)
(*   SpecCodec   Message construction, to_bytes and from_bytes             *)
(*   SpecMembers join_channel and leave_channel per store call             *)
(*   SpecSnowflake SnowflakeGenerator.next_id                              *)
(***************************************************************************)
EXTENDS Integers, Sequences, FiniteSets, TLC

\* ------------------------------------------------------------------ bounds
Users == {"alice", "bob"}
Channels == {"NET_RUNNERS"}
Texts == {"hello"}
\* chat messages originated by on_input_submitted
MaxMsgs == 2
\* records kept per broker topic
MaxLog == 3
\* channel keys generated (origination and rotation together)
MaxKeys == 2

NoLeader == "none"
NoKey == 0
NoOffset == -1

\* ------------------------------------------------------------------ state
VARIABLES
  \* coordination store
  lease,            \* channel:{c}:leader -> owner, NoLeader when absent
  ttl,              \* channel:{c}:leader -> ticks until the key expires, 0 when absent
  members,          \* channel:{c}:members
  rotq,             \* rotation:{c} signals delivered to a node's pub/sub loop, not yet handled
  \* broker
  topics,           \* data topics inbox-{u}, out-{u}: append-only logs
  rpc,              \* rpc-in-{u}: records not yet consumed by u's RPC consumer
  \* per node (KircApp / KafkaClient / CacheClient instance)
  connected,        \* kafka_client and cache_client connected
  subs,             \* data consumer subscription set
  offs,             \* data consumer position per topic (consumer group offsets)
  rotSubs,          \* channels whose rotation:{c} stream the node has subscribed
  channel_keys,     \* KircApp.channel_keys: channel -> insertion ordered (key_id, key)
  active_key_ids,   \* KircApp.active_key_ids: channel -> key_id
  dbKeys,           \* durable store, channel_keys table: channel -> sealed (key_id, key)
  saved,            \* durable store, messages table: (id, content)
  hist,             \* the fetch_channel_history task action_connect created: its leader, its state
  pc,               \* position of on_input_submitted
  leaderVar,        \* local variable leader of on_input_submitted
  draft,            \* local variable content of on_input_submitted
  outmsg,           \* local variable msg of on_input_submitted
  nextMsgId,        \* uuid4() supply for message ids
  nextKeyId,        \* uuid4() / Fernet.generate_key() supply
  \* register_channel_leader, per store call (SpecLease)
  lpc,              \* position of the call
  lsuccess,         \* local variable success
  lcurrent,         \* local variable current_leader
  lfree,            \* the call was invoked on a leaderless channel, no lease expired since
  lret,             \* value returned by the last completed call
  \* KafkaClient.request (SpecReq)
  pending,          \* KafkaClient._pending_requests: correlation id -> future
  reqst,            \* the request() calls made: position, correlation id, future, outcome
  handled,          \* records the RPC consume loop passed to the handlers
  \* action_rotate_keys, per suspension point (SpecRotate)
  rot,              \* per node: position, locals key_id / members / count, outcome
  \* history pages (SpecHistory)
  table,            \* durable store, messages table per node: rows (id, channel, timestamp)
  \* on_input_submitted with a failing typing update (SpecTyping)
  typingFailed,     \* per node: the set_typing calls of on_input_submitted that raised
  \* resign_channel_leader, per store call (SpecTtl)
  rpos,             \* position of the call
  rdel,             \* what the key held when the call's DEL removed it
  \* the consume loops of KafkaClient and CacheClient (SpecConsume, SpecPubSub)
  crecs,            \* per loop: the records fetched from the broker / the pub/sub connection
  cpos,             \* per loop: the number of records the loop has taken
  calls,            \* per loop: the handler calls made (handler, record, raised)
  calive,           \* per loop: the loop is running
  \* Message.to_bytes / Message.from_bytes (SpecCodec)
  codec,            \* the fields given, the message built, its bytes, the message decoded
  \* join_channel / leave_channel, per store call (SpecMembers)
  mpc,              \* per node: the call under way and its channel
  events,           \* channel:{c}:events: the events published so far
  \* SnowflakeGenerator (SpecSnowflake)
  snow              \* last_timestamp, sequence, and the outcome of the last next_id call

storeVars == <<lease, ttl, members, rotq>>
brokerVars == <<topics, rpc>>
nodeVars == <<connected, subs, offs, rotSubs, channel_keys, active_key_ids,
              dbKeys, saved, hist>>
sendVars == <<pc, leaderVar, draft, outmsg, nextMsgId>>
leaseVars == <<lpc, lsuccess, lcurrent, lfree, lret>>
reqVars == <<pending, reqst, handled>>
loopVars == <<crecs, cpos, calls, calive>>
auxVars == <<codec, mpc, events, snow>>
extVars == <<table, typingFailed, rpos, rdel, loopVars, auxVars>>
vars == <<storeVars, brokerVars, nodeVars, sendVars, nextKeyId, leaseVars, reqVars, rot, extVars>>

\* the consume loops: _run_data_consumer and _run_rpc_consumer of KafkaClient,
\* run of CacheClient
Loops == {"data", "rpc", "pubsub"}

\* durable store, contacts table: the identities whose public key u holds
\* (alice holds bob's key, bob holds nobody's)
contacts == [u \in Users |-> IF u = "alice" THEN {"bob"} ELSE {}]

\* KircApp.current_channel; the one channel of the channels table
CurrentChannel == CHOOSE c \in Channels : TRUE

\* ------------------------------------------------------------------ addresses
Inbox(u) == <<"inbox", u>>
Out(u) == <<"out", u>>
RpcIn(u) == <<"rpc-in", u>>
DataIn(u) == <<"data-in", u>>
DataTopics == {Inbox(u) : u \in Users} \cup {Out(u) : u \in Users}

\* ------------------------------------------------------------------ contents
Plain(t) == [kind |-> "plain", text |-> t, key |-> NoKey]
\* base64(Fernet(key).encrypt(text))
Cipher(k, t) == [kind |-> "cipher", text |-> t, key |-> k]
LockedStream == Plain("[ENCRYPTED_DATA_STREAM]")
LockedMissing == Plain("[ENCRYPTED - MISSING KEY]")
\* base64.b64decode accepts the text (a multiple of four alphabet characters)
B64Ok(t) == t \in {"chat"}

KeyIds(ks) == {ks[i].id : i \in 1..Len(ks)}
KeyOf(ks, kid) == (CHOOSE i \in 1..Len(ks) : ks[i].id = kid)
\* dict assignment d[kid] = key: an existing id keeps its place
PutKey(ks, kid, k) ==
  IF kid \in KeyIds(ks)
    THEN [ks EXCEPT ![KeyOf(ks, kid)] = [id |-> kid, key |-> k]]
    ELSE Append(ks, [id |-> kid, key |-> k])
\* d.get(c) on a dict keyed by channel
Get(d, c, default) == IF c \in DOMAIN d THEN d[c] ELSE default
Put(d, c, v) == [x \in DOMAIN d \cup {c} |-> IF x = c THEN v ELSE d[x]]
Empty == [x \in {} |-> 0]


\* ------------------------------------------------------------------ messages
\* A chat message as decoded by Message.from_bytes: the payload is what the
\* handlers read (content, channel, key_id).
ChatMsg(i, s, c, kid, body) ==
  [id |-> i, type |-> "chat", sender |-> s, channel |-> c, key_id |-> kid,
   content |-> body]
\* a channel_key_update that carries the key as it is
KeyUpdate_Unsealed(s, to, c, kid, k) ==
  [type |-> "channel_key_update", sender |-> s, recipient |-> to, channel |-> c,
   key_id |-> kid, sealedTo |-> "unsealed", key |-> k]

\* channel_key_update: the key sealed to the public key of `to`
KeyUpdate(s, to, c, kid, k) ==
  [type |-> "channel_key_update", sender |-> s, recipient |-> to, channel |-> c,
   key_id |-> kid, sealedTo |-> to, key |-> k]

\* ------------------------------------------------------------------ coordination store
\* GET channel:{c}:leader
get_channel_leader(c) == lease[c]

\* ex=ttl_seconds (cache/client.py 208, 215, 221), in ticks of the store's clock
TtlTicks == 2

\* a SET without EX: the key has no expiry (TTL -1)
SetTtl_Persistent == 0 - 1

\* SET ... EX ttl_seconds (line 215): the TTL the key starts with
SetTtl == TtlTicks

\* an EXPIRE that leaves the TTL as it is
Renewed_NoEffect(c) == ttl[c]

\* EXPIRE key ttl: restarts the TTL of the key if it exists
Renewed(c) == IF lease[c] # NoLeader THEN TtlTicks ELSE ttl[c]

\* TTL expiry of channel:{c}:leader; the claims in progress no longer race for
\* the vacancy they were invoked in
Expire(c) ==
  /\ lease[c] # NoLeader
  /\ lease' = [lease EXCEPT ![c] = NoLeader]
  /\ ttl' = [ttl EXCEPT ![c] = 0]
  /\ lfree' = [u \in Users |-> FALSE]
  /\ UNCHANGED <<members, rotq, brokerVars, nodeVars, sendVars, nextKeyId,
                 lpc, lsuccess, lcurrent, lret, reqVars, rot, extVars>>

\* ------------------------------------------------------------------ connect / quit
\* decrypt_message(private_key, sealed) for every persisted key of the channel
LoadedKeys(u) == dbKeys[u]

\* the leaders' outboxes action_connect subscribes to
LeaderOutboxes == {Out(lease[c]) : c \in {d \in Channels : lease[d] # NoLeader}}

\* KafkaClient.subscribe_to_topic: a topic without committed offset starts at the end
Subscribed(u, ts) ==
  /\ subs' = [subs EXCEPT ![u] = @ \cup ts]
  /\ offs' = [offs EXCEPT ![u] =
               [t \in DataTopics |->
                  IF t \in ts /\ @[t] = NoOffset THEN Len(topics[t]) ELSE @[t]]]

\* line 315: asyncio.create_task(fetch_channel_history(channel, leader)) when the
\* channel has a leader
HistoryTask(leader) ==
  [leader |-> leader, st |-> IF leader = NoLeader THEN "none" ELSE "spawned"]

action_connect(u) ==
  /\ ~connected[u]
  /\ connected' = [connected EXCEPT ![u] = TRUE]
  /\ channel_keys' = [channel_keys EXCEPT ![u] = LoadedKeys(u)]
  /\ Subscribed(u, {DataIn(u), Inbox(u), RpcIn(u)} \cup LeaderOutboxes)
  /\ members' = [c \in Channels |-> members[c] \cup {u}]
  /\ rotSubs' = [rotSubs EXCEPT ![u] = {c \in Channels : lease[c] # NoLeader}]
  /\ hist' = [hist EXCEPT ![u] = HistoryTask(get_channel_leader(CurrentChannel))]
  /\ UNCHANGED <<lease, ttl, rotq, brokerVars, active_key_ids, dbKeys, saved,
                 sendVars, nextKeyId, leaseVars, reqVars, rot, extVars>>

\* the process exits (binding q): in-memory state is lost, the lease, the
\* membership, the broker logs and the durable store stay
Quit(u) ==
  /\ connected[u]
  /\ pc[u] = "idle"
  /\ connected' = [connected EXCEPT ![u] = FALSE]
  /\ subs' = [subs EXCEPT ![u] = {}]
  /\ rotSubs' = [rotSubs EXCEPT ![u] = {}]
  /\ hist' = [hist EXCEPT ![u] = HistoryTask(NoLeader)]
  /\ rotq' = [rotq EXCEPT ![u] = <<>>]
  /\ channel_keys' = [channel_keys EXCEPT ![u] = Empty]
  /\ active_key_ids' = [active_key_ids EXCEPT ![u] = Empty]
  /\ UNCHANGED <<lease, ttl, members, brokerVars, offs, dbKeys, saved,
                 sendVars, nextKeyId, leaseVars, reqVars, rot, extVars>>

\* ------------------------------------------------------------------ send

\* lines 673-691: the message built, encrypted under the active key when it is
\* set and known, from the keys the node holds at that point;
\* no suspension point lies between the last store reply and this construction
Built(u, text, keys, active) ==
  LET c == CurrentChannel
      aid == Get(active, c, NoKey)
  IN IF aid # NoKey /\ c \in DOMAIN keys /\ aid \in KeyIds(keys[c])
       THEN ChatMsg(nextMsgId, u, c, aid, Cipher(keys[c][KeyOf(keys[c], aid)].key, text))
       ELSE ChatMsg(nextMsgId, u, c, NoKey, Plain(text))

NoMsg == ChatMsg(0, "", "", NoKey, Plain(""))

\* lines 631-654 (and 673-691 when a leader exists): the handler reads the leader
SubmitFind(u, text) ==
  /\ connected[u]
  /\ pc[u] = "idle"
  /\ nextMsgId <= MaxMsgs
  /\ leaderVar' = [leaderVar EXCEPT ![u] = get_channel_leader(CurrentChannel)]
  /\ IF get_channel_leader(CurrentChannel) = NoLeader
       THEN /\ pc' = [pc EXCEPT ![u] = "claim"]
            /\ draft' = [draft EXCEPT ![u] = text]
            /\ UNCHANGED <<outmsg, nextMsgId>>
       ELSE /\ pc' = [pc EXCEPT ![u] = "send"]
            /\ outmsg' = [outmsg EXCEPT ![u] = Built(u, text, channel_keys[u], active_key_ids[u])]
            /\ nextMsgId' = nextMsgId + 1
            /\ UNCHANGED draft
  /\ UNCHANGED <<storeVars, brokerVars, nodeVars, nextKeyId, leaseVars, reqVars, rot, extVars>>

\* a SET without NX: the write succeeds whatever the key holds
SetNX_Overwrites(c) == TRUE

\* SET channel:{c}:leader u NX EX ttl
SetNX(c) == lease[c] = NoLeader

\* a claim that succeeds whatever the key holds
RegisterResult_AlwaysTrue(u, c) == TRUE

\* register_channel_leader as one step: set-if-absent, else read and renew
RegisterResult(u, c) == SetNX(c) \/ lease[c] = u

\* the value the call before returned
NewKeyId_Reused == IF nextKeyId > 1 THEN nextKeyId - 1 ELSE nextKeyId

\* str(uuid4()), lines 563 and 663: a value no earlier call returned
NewKeyId == nextKeyId

\* line 660: the test that guards key origination
NeedsKey(u, c) == c \notin DOMAIN channel_keys[u]

\* lines 656-691: claim; on success originate a key if the channel has no entry,
\* then build the message
Claim(u) ==
  LET c == CurrentChannel
      keys == IF NeedsKey(u, c)
                THEN Put(channel_keys[u], c, <<[id |-> NewKeyId, key |-> NewKeyId]>>)
                ELSE channel_keys[u]
      active == IF NeedsKey(u, c)
                  THEN Put(active_key_ids[u], c, NewKeyId)
                  ELSE active_key_ids[u]
  IN
  /\ pc[u] = "claim"
  /\ IF RegisterResult(u, c)
       THEN /\ NeedsKey(u, c) => nextKeyId <= MaxKeys
            /\ lease' = [lease EXCEPT ![c] = u]
            /\ ttl' = [ttl EXCEPT ![c] = SetTtl]
            /\ leaderVar' = [leaderVar EXCEPT ![u] = u]
            /\ pc' = [pc EXCEPT ![u] = "send"]
            /\ channel_keys' = [channel_keys EXCEPT ![u] = keys]
            /\ active_key_ids' = [active_key_ids EXCEPT ![u] = active]
            /\ nextKeyId' = IF NeedsKey(u, c) THEN nextKeyId + 1 ELSE nextKeyId
            /\ outmsg' = [outmsg EXCEPT ![u] = Built(u, draft[u], keys, active)]
            /\ nextMsgId' = nextMsgId + 1
       ELSE /\ pc' = [pc EXCEPT ![u] = "reget"]
            /\ UNCHANGED <<lease, ttl, leaderVar, channel_keys, active_key_ids, nextKeyId,
                           outmsg, nextMsgId>>
  /\ UNCHANGED <<members, rotq, brokerVars, connected, subs, offs, rotSubs, hist, dbKeys,
                 saved, draft, leaseVars, reqVars, rot, extVars>>

\* lines 667-691: the claim failed, read the leader again
ReGet(u) ==
  /\ pc[u] = "reget"
  /\ leaderVar' = [leaderVar EXCEPT ![u] = get_channel_leader(CurrentChannel)]
  /\ IF get_channel_leader(CurrentChannel) = NoLeader
       THEN /\ pc' = [pc EXCEPT ![u] = "idle"]
            /\ UNCHANGED <<outmsg, nextMsgId>>
       ELSE /\ pc' = [pc EXCEPT ![u] = "send"]
            /\ outmsg' = [outmsg EXCEPT ![u] = Built(u, draft[u], channel_keys[u], active_key_ids[u])]
            /\ nextMsgId' = nextMsgId + 1
  /\ UNCHANGED <<storeVars, brokerVars, nodeVars, draft, nextKeyId, leaseVars, reqVars, rot, extVars>>

\* a send that always addresses the leader's inbox
SendTarget_AlwaysInbox(u, leader) == Inbox(leader)

\* lines 693-699: own outbox when the resolved leader is self, else the leader's inbox
SendTarget(u, leader) == IF leader = u THEN Out(u) ELSE Inbox(leader)

\* KafkaClient.send_message
Produce(t, m) == topics' = [topics EXCEPT ![t] = Append(@, m)]

Send(u) ==
  LET t == SendTarget(u, leaderVar[u])
  IN
  /\ pc[u] = "send"
  /\ Len(topics[t]) < MaxLog
  /\ Produce(t, outmsg[u])
  /\ pc' = [pc EXCEPT ![u] = "idle"]
  /\ outmsg' = [outmsg EXCEPT ![u] = NoMsg]
  /\ UNCHANGED <<storeVars, rpc, nodeVars, leaderVar, draft, nextMsgId, nextKeyId,
                 leaseVars, reqVars, rot, extVars>>

\* ------------------------------------------------------------------ receive / relay
\* a lookup that takes the first key of the channel whatever the key_id
ResolveKey_FirstKey(ks, kid) == IF ks # <<>> THEN ks[1].key ELSE NoKey

\* lines 463-468: the key of the message's key_id when the channel's map holds
\* it, else the first key of the map, else none
ResolveKey(ks, kid) ==
  IF kid # NoKey /\ kid \in KeyIds(ks)
    THEN ks[KeyOf(ks, kid)].key
    ELSE IF ks # <<>> THEN ks[1].key ELSE NoKey

\* lines 457-476: the content the handler computes for an inbound chat message
Decrypted(ck, m) ==
  IF m.channel \notin DOMAIN ck THEN m.content
  ELSE IF m.content.kind = "plain" /\ ~B64Ok(m.content.text) THEN LockedStream
  ELSE LET key == ResolveKey(ck[m.channel], m.key_id)
       IN IF key = NoKey THEN LockedMissing
          ELSE IF m.content.kind = "cipher" /\ m.content.key = key
                 THEN Plain(m.content.text)
                 ELSE LockedStream

\* lines 478-481: message.payload["content"] = content, then save_message
\* (INSERT ... ON CONFLICT (id) DO NOTHING)
Persisted(m, body) == [m EXCEPT !.content = body]
SaveMessage(db, m) ==
  IF \E r \in db : r.id = m.id THEN db ELSE db \cup {[id |-> m.id, content |-> m.content]}

\* a relay that omits the sender test of line 502
ShouldRelay_NoSenderTest(u, m) == get_channel_leader(m.channel) = u

\* lines 494-502: relay when the leader read is self and the sender is another
ShouldRelay(u, m) == get_channel_leader(m.channel) = u /\ m.sender # u

\* the next unread record of a subscribed data topic
Unread(u, t) == t \in subs[u] /\ t \in DataTopics /\ offs[u][t] < Len(topics[t])

handle_incoming_message(u, t) ==
  LET m == topics[t][offs[u][t] + 1]
      body == Decrypted(channel_keys[u], m)
      stored == Persisted(m, body)
  IN
  /\ connected[u]
  /\ Unread(u, t)
  /\ ShouldRelay(u, m) => Len(topics[Out(u)]) < MaxLog
  /\ offs' = [offs EXCEPT ![u][t] = @ + 1]
  /\ saved' = [saved EXCEPT ![u] = SaveMessage(@, stored)]
  /\ IF ShouldRelay(u, m)
       THEN Produce(Out(u), stored)
       ELSE UNCHANGED topics
  /\ UNCHANGED <<storeVars, rpc, connected, subs, rotSubs, hist, channel_keys,
                 active_key_ids, dbKeys, sendVars, nextKeyId,
                 leaseVars, reqVars, rot, extVars>>

\* ------------------------------------------------------------------ key rotation
\* lines 578-612: one channel_key_update per member other than self with a stored public key
KeyRecipients(u, c) == {m \in members[c] : m # u /\ m \in contacts[u]}

\* PUBLISH rotation:{c}: reaches the nodes subscribed at this moment
RotationSignalled(c, kid) ==
  rotq' = [v \in Users |->
             IF connected[v] /\ c \in rotSubs[v] THEN Append(rotq[v], [channel |-> c, key_id |-> kid])
             ELSE rotq[v]]

action_rotate_keys(u) ==
  LET c == CurrentChannel
      kid == NewKeyId
  IN
  /\ connected[u]
  /\ get_channel_leader(c) = u
  /\ nextKeyId <= MaxKeys
  /\ \A m \in KeyRecipients(u, c) : Len(rpc[m]) < MaxLog
  /\ nextKeyId' = nextKeyId + 1
  /\ channel_keys' = [channel_keys EXCEPT ![u] = Put(@, c, PutKey(Get(@, c, <<>>), kid, kid))]
  /\ dbKeys' = [dbKeys EXCEPT ![u] = Put(@, c, PutKey(Get(@, c, <<>>), kid, kid))]
  /\ rpc' = [m \in Users |->
               IF m \in KeyRecipients(u, c) THEN Append(rpc[m], KeyUpdate(u, m, c, kid, kid))
               ELSE rpc[m]]
  /\ RotationSignalled(c, kid)
  /\ UNCHANGED <<lease, ttl, members, topics, connected, subs, offs, rotSubs, hist,
                 active_key_ids, saved, sendVars, leaseVars, reqVars, rot, extVars>>

\* handle_rpc, channel_key_update branch (lines 374-402)
handle_rpc(u) ==
  LET m == Head(rpc[u])
      c == m.channel
      opens == m.sealedTo = u
      stores == opens /\ m.key_id # NoKey
  IN
  /\ connected[u]
  /\ rpc[u] # <<>>
  /\ rpc' = [rpc EXCEPT ![u] = Tail(@)]
  /\ channel_keys' = [channel_keys EXCEPT ![u] =
        IF ~opens THEN @
        ELSE IF stores THEN Put(@, c, PutKey(Get(@, c, <<>>), m.key_id, m.key))
        ELSE Put(@, c, Get(@, c, <<>>))]
  /\ dbKeys' = [dbKeys EXCEPT ![u] =
        IF stores THEN Put(@, c, PutKey(Get(@, c, <<>>), m.key_id, m.key)) ELSE @]
  /\ UNCHANGED <<storeVars, topics, connected, subs, offs, rotSubs, hist, active_key_ids,
                 saved, sendVars, nextKeyId, leaseVars, reqVars, rot, extVars>>

\* handle_key_rotation (lines 618-622)
handle_key_rotation(u) ==
  /\ connected[u]
  /\ rotq[u] # <<>>
  /\ active_key_ids' = [active_key_ids EXCEPT ![u] =
        Put(@, Head(rotq[u]).channel, Head(rotq[u]).key_id)]
  /\ rotq' = [rotq EXCEPT ![u] = Tail(@)]
  /\ UNCHANGED <<lease, ttl, members, brokerVars, connected, subs, offs, rotSubs, hist,
                 channel_keys, dbKeys, saved, sendVars, nextKeyId,
                 leaseVars, reqVars, rot, extVars>>

\* ------------------------------------------------------------------ specification
LeaseIdle ==
  /\ lpc = [u \in Users |-> "idle"]
  /\ lsuccess = [u \in Users |-> FALSE]
  /\ lcurrent = [u \in Users |-> NoLeader]
  /\ lfree = [u \in Users |-> FALSE]
  /\ lret = [u \in Users |-> "none"]

ReqIdle ==
  /\ pending = Empty
  /\ reqst = <<>>
  /\ handled = <<>>

\* no action_rotate_keys call made yet
RotateIdle ==
  rot = [u \in Users |->
           [st |-> "idle", kid |-> NoKey, list |-> {}, todo |-> {}, sent |-> {},
            count |-> 0, ret |-> "none", peer |-> {}]]

RelayInit ==
  /\ lease = [c \in Channels |-> NoLeader]
  /\ ttl = [c \in Channels |-> 0]
  /\ members = [c \in Channels |-> {}]
  /\ rotq = [u \in Users |-> <<>>]
  /\ topics = [t \in DataTopics |-> <<>>]
  /\ rpc = [u \in Users |-> <<>>]
  /\ connected = [u \in Users |-> FALSE]
  /\ subs = [u \in Users |-> {}]
  /\ offs = [u \in Users |-> [t \in DataTopics |-> NoOffset]]
  /\ rotSubs = [u \in Users |-> {}]
  /\ hist = [u \in Users |-> HistoryTask(NoLeader)]
  /\ channel_keys = [u \in Users |-> Empty]
  /\ active_key_ids = [u \in Users |-> Empty]
  /\ dbKeys = [u \in Users |-> Empty]
  /\ saved = [u \in Users |-> {}]
  /\ pc = [u \in Users |-> "idle"]
  /\ leaderVar = [u \in Users |-> NoLeader]
  /\ draft = [u \in Users |-> CHOOSE t \in Texts : TRUE]
  /\ outmsg = [u \in Users |-> NoMsg]
  /\ nextMsgId = 1
  /\ nextKeyId = 1

\* the value of a field that is None or that the model does not declare
None == [kind |-> "none"]

\* SnowflakeGenerator.__init__ (15-27); timestamps are counted from the
\* generator's epoch, and the initial last_timestamp lies before every reading.
\* read, res, id: the first clock reading, the outcome and the id of the last
\* next_id call
NoTimestamp == 0 - 1
NoId == 0 - 1
SnowflakeInit ==
  [last_timestamp |-> NoTimestamp, sequence |-> 0, read |-> NoTimestamp, res |-> "none",
   id |-> NoId]

\* no join_channel or leave_channel call under way
NoCall == [op |-> "idle", channel |-> ""]

\* no message built yet
CodecIdle == [st |-> "idle", fields |-> None, msg |-> None, wire |-> None, out |-> None]

\* the messages tables are empty
ExtIdle ==
  /\ table = [u \in Users |-> <<>>]
  /\ typingFailed = [u \in Users |-> 0]
  /\ rpos = [u \in Users |-> "idle"]
  /\ rdel = [u \in Users |-> "nothing"]
  /\ crecs = [l \in Loops |-> <<>>]
  /\ cpos = [l \in Loops |-> 0]
  /\ calls = [l \in Loops |-> <<>>]
  /\ calive = [l \in Loops |-> TRUE]
  /\ codec = CodecIdle
  /\ mpc = [u \in Users |-> NoCall]
  /\ events = [c \in Channels |-> <<>>]
  /\ snow = SnowflakeInit

Init == RelayInit /\ LeaseIdle /\ ReqIdle /\ RotateIdle /\ ExtIdle

Next ==
  \/ \E c \in Channels : Expire(c)
  \/ \E u \in Users : action_connect(u)
  \/ \E u \in Users : Quit(u)
  \/ \E u \in Users, text \in Texts : SubmitFind(u, text)
  \/ \E u \in Users : Claim(u)
  \/ \E u \in Users : ReGet(u)
  \/ \E u \in Users : Send(u)
  \/ \E u \in Users, t \in DataTopics : handle_incoming_message(u, t)
  \/ \E u \in Users : action_rotate_keys(u)
  \/ \E u \in Users : handle_rpc(u)
  \/ \E u \in Users : handle_key_rotation(u)

Spec == Init /\ [][Next]_vars

\* a peer's channel_key_update that carries no key_id ("noid") or is sealed to
\* another key ("badseal"); at most one such record in flight per node
ForeignKeyUpdate(u, kind) ==
  /\ rpc[u] = <<>>
  /\ rpc' = [rpc EXCEPT ![u] =
        <<[KeyUpdate("peer", u, CurrentChannel, NoKey, NoKey) EXCEPT
             !.sealedTo = IF kind = "noid" THEN u ELSE "peer"]>>]
  /\ UNCHANGED <<storeVars, topics, nodeVars, sendVars, nextKeyId, leaseVars, reqVars, rot, extVars>>

\* the send path and the RPC consumer, with malformed key updates arriving
NextForeign ==
  \/ \E c \in Channels : Expire(c)
  \/ \E u \in Users : action_connect(u)
  \/ \E u \in Users, text \in Texts : SubmitFind(u, text)
  \/ \E u \in Users : Claim(u)
  \/ \E u \in Users : ReGet(u)
  \/ \E u \in Users : Send(u)
  \/ \E u \in Users : handle_rpc(u)
  \/ \E u \in Users, kind \in {"noid", "badseal"} : ForeignKeyUpdate(u, kind)

SpecForeign == Init /\ [][NextForeign]_vars

\* the send and receive paths while no lease expires
NextRace ==
  \/ \E u \in Users : action_connect(u)
  \/ \E u \in Users, text \in Texts : SubmitFind(u, text)
  \/ \E u \in Users : Claim(u)
  \/ \E u \in Users : ReGet(u)
  \/ \E u \in Users : Send(u)
  \/ \E u \in Users, t \in DataTopics : handle_incoming_message(u, t)

SpecRace == Init /\ [][NextRace]_vars

\* a key no node of the model generated
PeerKey == MaxKeys + 1

\* a peer's channel_key_update, sealed to u, that names a key_id u's map holds
\* for the channel and carries another key
ForeignKeyRebind(u, kid) ==
  /\ rpc[u] = <<>>
  /\ kid \in KeyIds(Get(channel_keys[u], CurrentChannel, <<>>))
  /\ rpc' = [rpc EXCEPT ![u] = <<KeyUpdate("peer", u, CurrentChannel, kid, PeerKey)>>]
  /\ UNCHANGED <<storeVars, topics, nodeVars, sendVars, nextKeyId, leaseVars, reqVars, rot, extVars>>

\* the send path and the RPC consumer, with a peer's key updates for known key
\* ids arriving
NextRebind ==
  \/ \E c \in Channels : Expire(c)
  \/ \E u \in Users : action_connect(u)
  \/ \E u \in Users, text \in Texts : SubmitFind(u, text)
  \/ \E u \in Users : Claim(u)
  \/ \E u \in Users : ReGet(u)
  \/ \E u \in Users : Send(u)
  \/ \E u \in Users : handle_rpc(u)
  \/ \E u \in Users, kid \in 1..MaxKeys : ForeignKeyRebind(u, kid)

SpecRebind == Init /\ [][NextRebind]_vars

\* ------------------------------------------------------------------ register_channel_leader
\* CacheClient.register_channel_leader at the grain of its store calls: other
\* clients' commands and the expiry of the key interleave between them
OtherLeaseVars == <<members, rotq, brokerVars, nodeVars, sendVars, nextKeyId, reqVars, rot, extVars>>

\* the call is made (line 208)
RegisterCall(u) ==
  /\ lpc[u] = "idle"
  /\ lpc' = [lpc EXCEPT ![u] = "set"]
  /\ lfree' = [lfree EXCEPT ![u] = (lease[CurrentChannel] = NoLeader)]
  /\ lret' = [lret EXCEPT ![u] = "none"]
  /\ lsuccess' = [lsuccess EXCEPT ![u] = FALSE]
  /\ lcurrent' = [lcurrent EXCEPT ![u] = NoLeader]
  /\ UNCHANGED <<lease, ttl, OtherLeaseVars>>

\* line 215: success = SET key u NX EX ttl; line 224 returns it when it is set
RegisterSetNX(u) ==
  /\ lpc[u] = "set"
  /\ IF SetNX(CurrentChannel)
       THEN /\ lease' = [lease EXCEPT ![CurrentChannel] = u]
            /\ ttl' = [ttl EXCEPT ![CurrentChannel] = SetTtl]
            /\ lsuccess' = [lsuccess EXCEPT ![u] = TRUE]
            /\ lret' = [lret EXCEPT ![u] = "true"]
            /\ lpc' = [lpc EXCEPT ![u] = "idle"]
       ELSE /\ lpc' = [lpc EXCEPT ![u] = "get"]
            /\ UNCHANGED <<lease, ttl, lsuccess, lret>>
  /\ UNCHANGED <<lcurrent, lfree, OtherLeaseVars>>

\* lines 219-220 and 224: current_leader = GET key; another owner or none returns False
RegisterGet(u) ==
  /\ lpc[u] = "get"
  /\ lcurrent' = [lcurrent EXCEPT ![u] = lease[CurrentChannel]]
  /\ IF lease[CurrentChannel] = u
       THEN /\ lpc' = [lpc EXCEPT ![u] = "expire"]
            /\ UNCHANGED lret
       ELSE /\ lpc' = [lpc EXCEPT ![u] = "idle"]
            /\ lret' = [lret EXCEPT ![u] = "false"]
  /\ UNCHANGED <<lease, ttl, lsuccess, lfree, OtherLeaseVars>>

\* lines 221-222: EXPIRE key ttl (restarts the TTL of whatever the key holds now),
\* return True
RegisterExpire(u) ==
  /\ lpc[u] = "expire"
  /\ lpc' = [lpc EXCEPT ![u] = "idle"]
  /\ lret' = [lret EXCEPT ![u] = "true"]
  /\ ttl' = [ttl EXCEPT ![CurrentChannel] = Renewed(CurrentChannel)]
  /\ UNCHANGED <<lease, lsuccess, lcurrent, lfree, OtherLeaseVars>>

NextLease ==
  \/ \E u \in Users : RegisterCall(u)
  \/ \E u \in Users : RegisterSetNX(u)
  \/ \E u \in Users : RegisterGet(u)
  \/ \E u \in Users : RegisterExpire(u)
  \/ \E c \in Channels : Expire(c)

SpecLease == Init /\ [][NextLease]_vars

\* ------------------------------------------------------------------ lease, TTL and resignation
\* the store's clock: a tick of the TTL of channel:{c}:leader
Tick(c) ==
  /\ lease[c] # NoLeader
  /\ ttl[c] > 1
  /\ ttl' = [ttl EXCEPT ![c] = @ - 1]
  /\ UNCHANGED <<lease, leaseVars, OtherLeaseVars>>

\* the last tick: the key expires
Elapse(c) == ttl[c] = 1 /\ Expire(c)

OtherResignVars == <<members, rotq, brokerVars, nodeVars, sendVars, nextKeyId, leaseVars,
                     reqVars, rot, table, typingFailed, loopVars, auxVars>>

\* resign_channel_leader is called (line 235)
ResignCall(u) ==
  /\ rpos[u] = "idle"
  /\ rpos' = [rpos EXCEPT ![u] = "get"]
  /\ rdel' = [rdel EXCEPT ![u] = "nothing"]
  /\ UNCHANGED <<lease, ttl, OtherResignVars>>

\* lines 242-243: current_leader = GET key, compared with the own name
ResignGet(u) ==
  /\ rpos[u] = "get"
  /\ rpos' = [rpos EXCEPT ![u] = IF lease[CurrentChannel] = u THEN "delete" ELSE "idle"]
  /\ UNCHANGED <<lease, ttl, rdel, OtherResignVars>>

\* line 244: DEL key, whatever the key holds now
ResignDelete(u) ==
  /\ rpos[u] = "delete"
  /\ rpos' = [rpos EXCEPT ![u] = "idle"]
  /\ rdel' = [rdel EXCEPT ![u] = lease[CurrentChannel]]
  /\ lease' = [lease EXCEPT ![CurrentChannel] = NoLeader]
  /\ ttl' = [ttl EXCEPT ![CurrentChannel] = 0]
  /\ lfree' = [v \in Users |-> FALSE]
  /\ UNCHANGED <<members, rotq, brokerVars, nodeVars, sendVars, nextKeyId,
                 lpc, lsuccess, lcurrent, lret, reqVars, rot, table, typingFailed, loopVars, auxVars>>

NextTtl ==
  \/ \E u \in Users : RegisterCall(u)
  \/ \E u \in Users : RegisterSetNX(u)
  \/ \E u \in Users : RegisterGet(u)
  \/ \E u \in Users : RegisterExpire(u)
  \/ \E c \in Channels : Tick(c)
  \/ \E c \in Channels : Elapse(c)
  \/ \E u \in Users : ResignCall(u)
  \/ \E u \in Users : ResignGet(u)
  \/ \E u \in Users : ResignDelete(u)

SpecTtl == Init /\ [][NextTtl]_vars

\* ------------------------------------------------------------------ request / RPC consume loop
\* KafkaClient.request of one client and the peer that answers it
Requester == "alice"
Responder == "bob"
CorrIds == {"r1", "r2"}
NoCorrId == "absent"
\* request() calls made
MaxReqs == 3

OtherReqVars == <<storeVars, topics, rotSubs, channel_keys, active_key_ids, dbKeys, saved,
                  sendVars, nextKeyId, leaseVars, rot, extVars>>

\* the fetch_history request and the history_data reply (handle_rpc, lines 363-369)
\* lines 410-415: payload {"channel": channel, "limit": 20}
HistoryLimit == 20
FetchHistory(s, to, cid, c, limit) ==
  [type |-> "fetch_history", sender |-> s, recipient |-> to, correlation_id |-> cid,
   channel |-> c, limit |-> limit]
\* lines 363-369
HistoryData(s, to, cid, payload) ==
  [type |-> "history_data", sender |-> s, recipient |-> to, correlation_id |-> cid,
   payload |-> payload]

\* dict.pop(cid, None)
Pop(p, cid) == [x \in DOMAIN p \ {cid} |-> p[x]]

\* a removal written after the await instead of in finally: skipped when
\* wait_for raises
Finally_SkippedOnTimeout(p, cid, outcome) ==
  IF outcome = "timeout" THEN p ELSE Pop(p, cid)

\* lines 188-189: finally: self._pending_requests.pop(str(correlation_id), None)
Finally(p, cid, outcome) == Pop(p, cid)

\* lines 179-183: without a correlation id line 180 raises (uuid4 is not a name
\* of the module) before the table is touched; with one, the future is
\* registered under it, replacing any entry of the same id
request(cid) ==
  /\ Len(reqst) < MaxReqs
  /\ IF cid = NoCorrId
       THEN /\ reqst' = Append(reqst, [pc |-> "done", cid |-> cid, fut |-> "none",
                                       outcome |-> "raised"])
            /\ UNCHANGED pending
       ELSE /\ reqst' = Append(reqst, [pc |-> "send", cid |-> cid, fut |-> "pending",
                                       outcome |-> "none"])
            /\ pending' = Put(pending, cid, Len(reqst) + 1)
  /\ UNCHANGED <<handled, rpc, members, connected, subs, offs, OtherReqVars>>

\* a caller of request() that names the correlation id
RequestCall(cid) == request(cid) /\ UNCHANGED hist

\* line 186: send_rpc; it raises when the producer is missing or the broker
\* refuses, and the finally clause runs
RequestSend(r, ok) ==
  /\ r \in DOMAIN reqst
  /\ reqst[r].pc = "send"
  /\ ok => connected[Requester] /\ Len(rpc[Responder]) < MaxLog
  /\ IF ok
       THEN /\ rpc' = [rpc EXCEPT ![Responder] =
                         Append(@, FetchHistory(Requester, Responder, reqst[r].cid,
                                                CurrentChannel, HistoryLimit))]
            /\ reqst' = [reqst EXCEPT ![r].pc = "wait"]
            /\ UNCHANGED pending
       ELSE /\ reqst' = [reqst EXCEPT ![r].pc = "done", ![r].outcome = "send_failed"]
            /\ pending' = Finally(pending, reqst[r].cid, "send_failed")
            /\ UNCHANGED rpc
  /\ UNCHANGED <<handled, members, connected, subs, offs, hist, OtherReqVars>>

\* line 187: wait_for returns the result of the fulfilled future
RequestResult(r) ==
  /\ r \in DOMAIN reqst
  /\ reqst[r].pc = "wait"
  /\ reqst[r].fut = "done"
  /\ reqst' = [reqst EXCEPT ![r].pc = "done", ![r].outcome = "result"]
  /\ pending' = Finally(pending, reqst[r].cid, "result")
  /\ UNCHANGED <<handled, rpc, members, connected, subs, offs, hist, OtherReqVars>>

\* line 187: the timeout elapses first: wait_for cancels the future and raises
RequestTimeout(r) ==
  /\ r \in DOMAIN reqst
  /\ reqst[r].pc = "wait"
  /\ reqst[r].fut = "pending"
  /\ reqst' = [reqst EXCEPT ![r].pc = "done", ![r].outcome = "timeout",
                            ![r].fut = "cancelled"]
  /\ pending' = Finally(pending, reqst[r].cid, "timeout")
  /\ UNCHANGED <<handled, rpc, members, connected, subs, offs, hist, OtherReqVars>>

\* ---- get_messages (db/client.py 365-422)
\* the rows of the channel (WHERE channel = $1)
ChannelRows(tb, c) == {i \in 1..Len(tb) : tb[i].channel = c}

\* ORDER BY timestamp DESC over the rows S of tb
RECURSIVE OrderDesc(_, _)
OrderDesc(tb, S) ==
  IF S = {} THEN <<>>
  ELSE LET i == CHOOSE i \in S : \A j \in S : tb[i].ts >= tb[j].ts
       IN <<tb[i]>> \o OrderDesc(tb, S \ {i})

\* a query without its LIMIT clause
Limited_Unbounded(rows, n) == rows

\* LIMIT n
Limited(rows, n) == SubSeq(rows, 1, IF n < Len(rows) THEN n ELSE Len(rows))

\* reversed(rows)
Reversed(rows) == [i \in 1..Len(rows) |-> rows[Len(rows) + 1 - i]]

get_messages(tb, c, limit) == Reversed(Limited(OrderDesc(tb, ChannelRows(tb, c)), limit))

\* ---- encrypt_message (crypto.py 38-61): RSA-OAEP with SHA-256 under a
\* 2048-bit key accepts a plaintext of at most k - 2 hLen - 2 bytes and raises
\* for a longer one
RsaKeyBytes == 256
HashBytes == 32
SealLimit == RsaKeyBytes - 2 * HashBytes - 2

\* the least msgpack size of one dumped row of the messages table: the ten
\* field names, two ISO timestamps and the shortest values of the other fields
RowBytes == 140

\* msgpack.packb(messages_json): the array header and the rows
PackedSize(page) == 1 + Len(page) * RowBytes

\* lines 341-361: the payload of the reply to requester s
HistoryPayload(u, s, page) ==
  IF s \in contacts[u] /\ PackedSize(page) <= SealLimit
    THEN [is_encrypted |-> TRUE, encrypted_messages |-> [sealedTo |-> s, page |-> page]]
    ELSE [is_encrypted |-> FALSE, messages |-> page]

\* handle_rpc, fetch_history branch (lines 334-372) at the peer: the reply
\* carries the page and the request's correlation id to rpc-in-{sender}
handle_fetch_history(u) ==
  LET m == Head(rpc[u])
      page == get_messages(table[u], m.channel, m.limit)
  IN
  /\ connected[u]
  /\ rpc[u] # <<>>
  /\ m.type = "fetch_history"
  /\ Len(rpc[m.sender]) < MaxLog
  /\ rpc' = [rpc EXCEPT ![u] = Tail(@),
                        ![m.sender] =
                           Append(@, HistoryData(u, m.sender, m.correlation_id,
                                                 HistoryPayload(u, m.sender, page)))]
  /\ UNCHANGED <<pending, reqst, handled, members, connected, subs, offs, hist, OtherReqVars>>

\* a lookup by the UUID itself in a table keyed by str(UUID): never found
Matches_UuidNotStr(m) == FALSE

\* lines 236-237: the record answers a pending request
Matches(m) == m.correlation_id # NoCorrId /\ m.correlation_id \in DOMAIN pending

\* _run_rpc_consumer (lines 229-249) of the requesting client: a record matching
\* a pending request fulfils its future unless done, any other goes to the handlers
run_rpc_consumer ==
  LET m == Head(rpc[Requester])
  IN
  /\ connected[Requester]
  /\ rpc[Requester] # <<>>
  /\ rpc' = [rpc EXCEPT ![Requester] = Tail(@)]
  /\ IF Matches(m)
       THEN /\ reqst' = [reqst EXCEPT ![pending[m.correlation_id]].fut =
                           IF @ = "pending" THEN "done" ELSE @]
            /\ UNCHANGED handled
       ELSE /\ handled' = Append(handled, m)
            /\ UNCHANGED reqst
  /\ UNCHANGED <<pending, members, connected, subs, offs, hist, OtherReqVars>>

NextReq ==
  \/ \E u \in Users : action_connect(u)
  \/ \E cid \in CorrIds \cup {NoCorrId} : RequestCall(cid)
  \/ \E r \in 1..MaxReqs, ok \in BOOLEAN : RequestSend(r, ok)
  \/ \E r \in 1..MaxReqs : RequestResult(r)
  \/ \E r \in 1..MaxReqs : RequestTimeout(r)
  \/ \E u \in Users : handle_fetch_history(u)
  \/ run_rpc_consumer

SpecReq == Init /\ [][NextReq]_vars

\* ------------------------------------------------------------------ history sync
\* fetch_channel_history (lines 404-448) of the requesting client: the request
\* built at lines 410-415 names no correlation id; an exception of request() is
\* caught at lines 447-448
fetch_channel_history ==
  /\ connected[Requester]
  /\ hist[Requester].st = "spawned"
  /\ request(NoCorrId)
  /\ hist' = [hist EXCEPT ![Requester].st =
                IF reqst'[Len(reqst')].outcome = "raised" THEN "failed" ELSE "waiting"]

\* connect with a leader present, the history fetch, and requests that name
\* their correlation id
NextFetch ==
  \/ \E u \in Users : action_connect(u)
  \/ \E u \in Users, text \in Texts : SubmitFind(u, text)
  \/ \E u \in Users : Claim(u)
  \/ \E u \in Users : ReGet(u)
  \/ \E u \in Users : Send(u)
  \/ fetch_channel_history
  \/ \E cid \in CorrIds : RequestCall(cid)
  \/ \E r \in 1..MaxReqs, ok \in BOOLEAN : RequestSend(r, ok)
  \/ \E r \in 1..MaxReqs : RequestResult(r)
  \/ \E r \in 1..MaxReqs : RequestTimeout(r)
  \/ \E u \in Users : handle_fetch_history(u)
  \/ run_rpc_consumer

SpecFetch == Init /\ [][NextFetch]_vars

\* ------------------------------------------------------------------ history pages
\* the answering side of the history fetch: rows saved to the messages table,
\* requests of either node with any limit, the replies
MaxRows == 3
MaxLimit == 3
OtherChannel == "LOBBY"

OtherHistVars == <<storeVars, topics, nodeVars, sendVars, nextKeyId, leaseVars, reqVars, rot>>

\* save_message (db/client.py 341-363): a row of the channel with the message's
\* timestamp, which need not follow the order of arrival
StoreRow(u, c, ts) ==
  /\ connected[u]
  /\ Len(table[u]) < MaxRows
  /\ \A i \in 1..Len(table[u]) : table[u][i].ts # ts
  /\ table' = [table EXCEPT ![u] = Append(@, [id |-> Len(@) + 1, channel |-> c, ts |-> ts])]
  /\ UNCHANGED <<rpc, typingFailed, rpos, rdel, loopVars, auxVars, OtherHistVars>>

\* a fetch_history request of s arrives on rpc-in-{u}; one request or reply
\* in flight between the two
FetchArrives(u, s, limit) ==
  /\ u # s
  /\ connected[u] /\ connected[s]
  /\ rpc[u] = <<>> /\ rpc[s] = <<>>
  /\ rpc' = [rpc EXCEPT ![u] = <<FetchHistory(s, u, "r1", CurrentChannel, limit)>>]
  /\ UNCHANGED <<table, typingFailed, rpos, rdel, loopVars, auxVars, OtherHistVars>>

\* handle_rpc (lines 332-402) on a record that is neither a fetch_history nor a
\* channel_key_update: no branch is taken
handle_rpc_other(u) ==
  /\ connected[u]
  /\ rpc[u] # <<>>
  /\ Head(rpc[u]).type \notin {"fetch_history", "channel_key_update"}
  /\ rpc' = [rpc EXCEPT ![u] = Tail(@)]
  /\ UNCHANGED <<table, typingFailed, rpos, rdel, loopVars, auxVars, OtherHistVars>>

NextHistory ==
  \/ \E u \in Users : action_connect(u)
  \/ \E u \in Users, c \in {CurrentChannel, OtherChannel}, ts \in 1..MaxRows : StoreRow(u, c, ts)
  \/ \E u, s \in Users, limit \in 0..MaxLimit : FetchArrives(u, s, limit)
  \/ \E u \in Users : handle_fetch_history(u)
  \/ \E u \in Users : handle_rpc_other(u)

SpecHistory == Init /\ [][NextHistory]_vars

\* ------------------------------------------------------------------ send with a failing typing update
\* on_input_submitted when set_typing (cache/client.py 96-118) raises: the call
\* at lines 644-645 stands before the try of line 648, so the exception leaves
\* the handler
MaxTypingFails == 2

SubmitTypingFails(u, text) ==
  /\ connected[u]
  /\ pc[u] = "idle"
  /\ typingFailed[u] < MaxTypingFails
  /\ typingFailed' = [typingFailed EXCEPT ![u] = @ + 1]
  /\ UNCHANGED <<storeVars, brokerVars, nodeVars, sendVars, nextKeyId, leaseVars, reqVars,
                 rot, table, rpos, rdel, loopVars, auxVars>>

NextTyping ==
  \/ \E c \in Channels : Expire(c)
  \/ \E u \in Users : action_connect(u)
  \/ \E u \in Users, text \in Texts : SubmitFind(u, text)
  \/ \E u \in Users, text \in Texts : SubmitTypingFails(u, text)
  \/ \E u \in Users : Claim(u)
  \/ \E u \in Users : ReGet(u)
  \/ \E u \in Users : Send(u)

SpecTyping == Init /\ [][NextTyping]_vars

\* ------------------------------------------------------------------ consume loops
\* records fetched per loop
MaxRecords == 2

\* on_message / on_rpc (kafka/client.py 143-149), on_presence ... on_notification:
\* the handlers registered, in order of registration
HandlerList == <<"h1", "h2">>
Handlers == {HandlerList[k] : k \in 1..Len(HandlerList)}

\* a record Message.from_bytes / msgpack.unpackb rejects
Undecodable == [kind |-> "undecodable"]
\* a record that decodes to a message
Decoded(cid) == [kind |-> "message", correlation_id |-> cid]
Decodes(rec) == rec.kind # "undecodable"

\* the handlers called for record i one after the other, each in its own
\* try/except; raises: the handlers that raise on it
CallsAll(i, raises) ==
  [k \in 1..Len(HandlerList) |->
     [h |-> HandlerList[k], rec |-> i, raised |-> HandlerList[k] \in raises]]

\* the handlers called in a for loop without try/except: the first exception
\* ends the loop
CallsUntilRaise(i, raises) ==
  LET K == {k \in 1..Len(HandlerList) : HandlerList[k] \in raises}
  IN SubSeq(CallsAll(i, raises), 1,
            IF K = {} THEN Len(HandlerList) ELSE CHOOSE k \in K : \A j \in K : k <= j)

\* a dispatch whose handler calls stand in no try/except
Dispatched_Unguarded(i, raises) ==
  [called |-> CallsUntilRaise(i, raises), escaped |-> raises # {}]

\* kafka/client.py 221-227 and 243-249: for handler in handlers: try ... except;
\* called: the calls made, escaped: an exception leaves the dispatch
Dispatched(i, raises) == [called |-> CallsAll(i, raises), escaped |-> FALSE]

\* a decode error that leaves the generator
SurvivesDecodeError_Raises(l) == FALSE

\* kafka/client.py 197-202 and 210-214: except Exception around from_bytes
SurvivesDecodeError(l) == TRUE

OtherLoopVars == <<storeVars, brokerVars, nodeVars, sendVars, nextKeyId, leaseVars, rot,
                   table, typingFailed, rpos, rdel, auxVars>>

\* the consumer of a loop yields the next record of its topic
RecordFetched(l, rec) ==
  /\ l \in {"data", "rpc"}
  /\ Len(crecs[l]) < MaxRecords
  /\ crecs' = [crecs EXCEPT ![l] = Append(@, rec)]
  /\ UNCHANGED <<cpos, calls, calive, reqVars, OtherLoopVars>>

\* one pass of _run_data_consumer (216-227) or _run_rpc_consumer (229-249)
ConsumeStep(l, raises) ==
  LET i == cpos[l] + 1
      rec == crecs[l][i]
  IN
  /\ l \in {"data", "rpc"}
  /\ calive[l]
  /\ cpos[l] < Len(crecs[l])
  /\ cpos' = [cpos EXCEPT ![l] = i]
  /\ IF ~Decodes(rec)
       THEN /\ calive' = [calive EXCEPT ![l] = SurvivesDecodeError(l)]
            /\ UNCHANGED <<calls, reqst>>
       ELSE IF l = "rpc" /\ Matches(rec)
         THEN /\ reqst' = [reqst EXCEPT ![pending[rec.correlation_id]].fut =
                             IF @ = "pending" THEN "done" ELSE @]
              /\ UNCHANGED <<calls, calive>>
         ELSE /\ calls' = [calls EXCEPT ![l] = @ \o Dispatched(i, raises).called]
              /\ calive' = [calive EXCEPT ![l] = ~Dispatched(i, raises).escaped]
              /\ UNCHANGED reqst
  /\ UNCHANGED <<crecs, pending, handled, OtherLoopVars>>

NextConsume ==
  \/ \E cid \in CorrIds : RequestCall(cid)
  \/ \E l \in Loops, rec \in {Undecodable} \cup {Decoded(cid) : cid \in CorrIds \cup {NoCorrId}} :
       RecordFetched(l, rec)
  \/ \E l \in Loops, raises \in SUBSET Handlers : ConsumeStep(l, raises)

SpecConsume == Init /\ [][NextConsume]_vars

\* ------------------------------------------------------------------ pub/sub loop
\* the streams _handle_message tells apart by the prefix of the channel name
Streams == {"presence", "typing", "rotation", "events", "notify"}
\* the streams whose handlers are called inside try/except (400-406, 442-448)
GuardedStreams == {"presence", "notify"}

\* a pub/sub message whose data unpacks
Event(st) == [kind |-> "event", stream |-> st]

\* CacheClient._handle_message (383-448) on the i-th message: the handler calls
\* made and whether an exception leaves the function
handle_message(i, rec, raises) ==
  IF ~Decodes(rec)
    THEN [called |-> <<>>, escaped |-> FALSE]
    ELSE IF rec.stream \in GuardedStreams
      THEN [called |-> CallsAll(i, raises), escaped |-> FALSE]
      ELSE [called |-> CallsUntilRaise(i, raises), escaped |-> raises # {}]

\* a loop that an exception leaving _handle_message ends
SurvivesEscape_Breaks(escaped) == ~escaped

\* CacheClient.run 463-467: except Exception: print, sleep(1), and the while
\* loop goes on
SurvivesEscape(escaped) == TRUE

\* the pub/sub connection delivers a published message
EventFetched(rec) ==
  /\ Len(crecs["pubsub"]) < MaxRecords
  /\ crecs' = [crecs EXCEPT !["pubsub"] = Append(@, rec)]
  /\ UNCHANGED <<cpos, calls, calive, reqVars, OtherLoopVars>>

\* one pass of the while loop of CacheClient.run (455-467) that gets a message
cache_run(raises) ==
  LET i == cpos["pubsub"] + 1
      r == handle_message(i, crecs["pubsub"][i], raises)
  IN
  /\ calive["pubsub"]
  /\ cpos["pubsub"] < Len(crecs["pubsub"])
  /\ cpos' = [cpos EXCEPT !["pubsub"] = i]
  /\ calls' = [calls EXCEPT !["pubsub"] = @ \o r.called]
  /\ calive' = [calive EXCEPT !["pubsub"] = SurvivesEscape(r.escaped)]
  /\ UNCHANGED <<crecs, reqVars, OtherLoopVars>>

NextPubSub ==
  \/ \E rec \in {Undecodable} \cup {Event(st) : st \in Streams} : EventFetched(rec)
  \/ \E raises \in SUBSET Handlers : cache_run(raises)

SpecPubSub == Init /\ [][NextPubSub]_vars

\* ------------------------------------------------------------------ message codec
\* values by Python type: str, UUID, datetime, a member of a plain Enum, a
\* member of MessageType (a str Enum), None
Str(v) == [kind |-> "str", v |-> v]
Uuid(v) == [kind |-> "uuid", v |-> v]
Datetime(v) == [kind |-> "datetime", v |-> v]
EnumMember(v) == [kind |-> "enum", v |-> v]
TypeMember(v) == [kind |-> "MessageType", v |-> v]
\* the dict {tag: v} on the wire
Tagged(tag, v) == [kind |-> "dict", tag |-> tag, v |-> v]

\* kafka/messages.py 36-48: the values of MessageType
MessageTypes == {"chat", "direct", "broadcast", "ping", "pong", "presence", "typing", "ack"}
\* app.py 364, 411, 598: the types the application passes besides
RpcTypes == {"fetch_history", "history_data", "channel_key_update"}

\* the fields class Message declares (lines 54-61)
MessageFields == {"id", "type", "sender", "recipient", "timestamp", "payload"}
\* the fields the callers pass or read (app.py 367, kafka/client.py 179-189, 236)
EnvelopeFields == MessageFields \cup {"correlation_id"}

\* pydantic raises ValidationError
Invalid == [kind |-> "invalid"]

\* Message(**f) / Message.model_validate(f): the type must be a value of
\* MessageType and becomes its member; fields the model does not declare are
\* ignored
model_validate(f) ==
  IF f["type"].v \notin MessageTypes
    THEN Invalid
    ELSE [x \in MessageFields |-> IF x = "type" THEN TypeMember(f[x].v) ELSE f[x]]

\* packb(..., default=_encode_extended, strict_types=False) on one value: a str
\* and a member of a str Enum are packed as str, None as nil; default is
\* called for UUID, datetime and members of other Enums (lines 12-20)
_encode_extended(x) ==
  CASE x.kind = "uuid" -> Tagged("__uuid__", x.v)
    [] x.kind = "datetime" -> Tagged("__datetime__", x.v)
    [] x.kind = "enum" -> Tagged("__enum__", x.v)
    [] x.kind = "MessageType" -> Str(x.v)
    [] OTHER -> x

\* object_hook=_decode_extended on one value (lines 23-32): the enum tag
\* yields the bare value
_decode_extended(x) ==
  IF x.kind # "dict" THEN x
  ELSE CASE x.tag = "__uuid__" -> Uuid(x.v)
         [] x.tag = "__datetime__" -> Datetime(x.v)
         [] x.tag = "__enum__" -> Str(x.v)
         [] OTHER -> x

\* Message.to_bytes (63-66): model_dump, then packb
to_bytes(m) ==
  [x \in DOMAIN m |->
     IF x = "payload"
       THEN [k \in DOMAIN m[x] |-> _encode_extended(m[x][k])]
       ELSE _encode_extended(m[x])]

\* Message.from_bytes (68-72): unpackb, then model_validate
from_bytes(b) ==
  model_validate([x \in DOMAIN b |->
                    IF x = "payload"
                      THEN [k \in DOMAIN b[x] |-> _decode_extended(b[x][k])]
                      ELSE _decode_extended(b[x])])

\* the field x of a message; None when the message has no such attribute
FieldOf(m, x) == IF x \in DOMAIN m THEN m[x] ELSE None

\* the argument sets of the constructor calls
CodecInputs ==
  [id : {Uuid(1)},
   type : {Str(t) : t \in MessageTypes \cup RpcTypes},
   sender : {Str("alice")},
   recipient : {None, Str("bob")},
   timestamp : {Datetime(1)},
   correlation_id : {None, Uuid(2)},
   payload : {[content |-> v] : v \in {Str("hello"), EnumMember("join"), Uuid(3)}}]

OtherCodecVars == <<storeVars, brokerVars, nodeVars, sendVars, nextKeyId, leaseVars, reqVars,
                    rot, table, typingFailed, rpos, rdel, loopVars, mpc, events, snow>>

\* the constructor call
Compose(f) ==
  /\ codec.st = "idle"
  /\ codec' = [codec EXCEPT !.st = IF model_validate(f) = Invalid THEN "rejected" ELSE "built",
                            !.fields = f, !.msg = model_validate(f)]
  /\ UNCHANGED OtherCodecVars

Encode ==
  /\ codec.st = "built"
  /\ codec' = [codec EXCEPT !.st = "encoded", !.wire = to_bytes(codec.msg)]
  /\ UNCHANGED OtherCodecVars

Decode ==
  /\ codec.st = "encoded"
  /\ codec' = [codec EXCEPT !.st = "decoded", !.out = from_bytes(codec.wire)]
  /\ UNCHANGED OtherCodecVars

NextCodec ==
  \/ \E f \in CodecInputs : Compose(f)
  \/ Encode
  \/ Decode

SpecCodec == Init /\ [][NextCodec]_vars

\* ------------------------------------------------------------------ channel membership
\* events published per channel
MaxEvents == 3

\* an SREM that empties the set
SRem_Clears(ms, u) == {}

\* SREM channel:{c}:members u (line 359)
SRem(ms, u) == ms \ {u}

\* SADD channel:{c}:members u (line 349)
SAdd(ms, u) == ms \cup {u}

\* publish_channel_event (318-329) called by join_channel / leave_channel of u:
\* msgpack of type, payload {"username": u}, sender
ChannelEvent(kind, u) == [type |-> kind, username |-> u, sender |-> u]

\* get_channel_members (363-370): SMEMBERS
get_channel_members(c) == members[c]

OtherMemberVars == <<lease, ttl, rotq, brokerVars, nodeVars, sendVars, nextKeyId, leaseVars,
                     reqVars, rot, table, typingFailed, rpos, rdel, loopVars, codec, snow>>

\* join_channel up to its first await: the SADD
JoinAdd(u, c) ==
  /\ mpc[u] = NoCall
  /\ members' = [members EXCEPT ![c] = SAdd(@, u)]
  /\ mpc' = [mpc EXCEPT ![u] = [op |-> "join", channel |-> c]]
  /\ UNCHANGED <<events, OtherMemberVars>>

\* leave_channel up to its first await: the SREM
LeaveRemove(u, c) ==
  /\ mpc[u] = NoCall
  /\ members' = [members EXCEPT ![c] = SRem(@, u)]
  /\ mpc' = [mpc EXCEPT ![u] = [op |-> "leave", channel |-> c]]
  /\ UNCHANGED <<events, OtherMemberVars>>

\* the PUBLISH that ends join_channel (351) and leave_channel (361)
MemberPublish(u) ==
  /\ mpc[u] # NoCall
  /\ Len(events[mpc[u].channel]) < MaxEvents
  /\ events' = [events EXCEPT ![mpc[u].channel] = Append(@, ChannelEvent(mpc[u].op, u))]
  /\ mpc' = [mpc EXCEPT ![u] = NoCall]
  /\ UNCHANGED <<members, OtherMemberVars>>

NextMembers ==
  \/ \E u \in Users, c \in Channels : JoinAdd(u, c)
  \/ \E u \in Users, c \in Channels : LeaveRemove(u, c)
  \/ \E u \in Users : MemberPublish(u)

SpecMembers == Init /\ [][NextMembers]_vars

\* ------------------------------------------------------------------ snowflake ids
\* clock readings, in milliseconds after the epoch
MaxClock == 2

\* utils.py 16, 20-22
machine_id == 5
machine_id_shift == 12
timestamp_shift == 22
sequence_mask == 4095

\* x << n
Shl(x, n) == x * 2^n

\* line 40: (sequence + 1) & sequence_mask
NextSequence(q) == (q + 1) % (sequence_mask + 1)

\* an exhausted sequence that goes on within the same millisecond
WaitedOut_SameMillisecond(ts, later) == ts

\* lines 41-44: the loop reads the clock until it is past last_timestamp;
\* later is the reading that ends it
WaitedOut(ts, later) == later

\* lines 50-52: the three fields occupy disjoint bits, so | adds them
ComposeId(ts, q) == Shl(ts, timestamp_shift) + Shl(machine_id, machine_id_shift) + q

OtherSnowVars == <<storeVars, brokerVars, nodeVars, sendVars, nextKeyId, leaseVars, reqVars,
                   rot, table, typingFailed, rpos, rdel, loopVars, codec, mpc, events>>

\* next_id (33-54), the whole call under the lock; ts is the first clock
\* reading, later the reading that ends the wait of an exhausted sequence
next_id(ts, later) ==
  LET exhausted == ts = snow.last_timestamp /\ NextSequence(snow.sequence) = 0
      stamp == IF exhausted THEN WaitedOut(ts, later) ELSE ts
      q == IF ts = snow.last_timestamp THEN NextSequence(snow.sequence) ELSE 0
  IN
  /\ later > snow.last_timestamp
  /\ IF ts < snow.last_timestamp
       THEN snow' = [snow EXCEPT !.read = ts, !.res = "error"]
       ELSE snow' = [last_timestamp |-> stamp, sequence |-> q, read |-> ts, res |-> "id",
                     id |-> ComposeId(stamp, q)]
  /\ UNCHANGED OtherSnowVars

NextSnowflake == \E ts \in 0..MaxClock, later \in 0..MaxClock + 1 : next_id(ts, later)

SpecSnowflake == Init /\ [][NextSnowflake]_vars

\* ------------------------------------------------------------------ rotate, per suspension point
\* action_rotate_keys (lines 548-616) as the steps between its awaits: other
\* nodes' handlers, lease expiry and claims interleave between them
\* key ids issued with the stepwise rotation
MaxKeyIds == 3

\* a rotation that skips the leader test
IsLeaseHolder_Unchecked(u, c) == TRUE

\* lines 556-557: the leader read names the caller
IsLeaseHolder(u, c) == get_channel_leader(c) = u

\* the nodes inside a rotation call
Rotating == {v \in Users : rot[v].st # "idle"}

\* the loop ends before every member was taken
SendsDone_Early(u) == TRUE

\* lines 583-612: the loop over members has taken every member
SendsDone(u) == rot[u].todo = {}

OtherRotVars == <<lease, ttl, members, topics, connected, subs, offs, rotSubs, hist,
                  active_key_ids, saved, sendVars, leaseVars, reqVars, extVars>>

\* lines 548-567: the leader read; a caller that is not the leader returns, the
\* leader generates key and key_id and stores them in its key map
RotateCall(u) ==
  LET c == CurrentChannel
      kid == NewKeyId
  IN
  /\ connected[u]
  /\ rot[u].st = "idle"
  /\ IF IsLeaseHolder(u, c)
       THEN /\ nextKeyId <= MaxKeyIds
            /\ nextKeyId' = nextKeyId + 1
            /\ channel_keys' = [channel_keys EXCEPT ![u] =
                                  Put(@, c, PutKey(Get(@, c, <<>>), kid, kid))]
            /\ rot' = [v \in Users |->
                  IF v = u
                    THEN [st |-> "persist", kid |-> kid, list |-> {}, todo |-> {},
                          sent |-> {}, count |-> 0, ret |-> "none", peer |-> Rotating]
                    ELSE [rot[v] EXCEPT !.peer = IF v \in Rotating THEN @ \cup {u}
                                                                   ELSE @ \ {u}]]
       ELSE /\ rot' = [rot EXCEPT ![u].ret = "denied"]
            /\ UNCHANGED <<nextKeyId, channel_keys>>
  /\ UNCHANGED <<dbKeys, rpc, rotq, OtherRotVars>>

\* lines 570-576: the key sealed to the own public key is persisted
RotatePersist(u) ==
  LET c == CurrentChannel
  IN
  /\ rot[u].st = "persist"
  /\ dbKeys' = [dbKeys EXCEPT ![u] =
                  Put(@, c, PutKey(Get(@, c, <<>>), rot[u].kid, rot[u].kid))]
  /\ rot' = [rot EXCEPT ![u].st = "members"]
  /\ UNCHANGED <<nextKeyId, channel_keys, rpc, rotq, OtherRotVars>>

\* lines 578-582: the member set is read
RotateMembers(u) ==
  /\ rot[u].st = "members"
  /\ rot' = [rot EXCEPT ![u].st = "send",
                        ![u].list = members[CurrentChannel],
                        ![u].todo = members[CurrentChannel]]
  /\ UNCHANGED <<nextKeyId, channel_keys, dbKeys, rpc, rotq, OtherRotVars>>

\* lines 583-612, one pass of the loop: self and members without a stored public
\* key are skipped; sealing or sending may raise, which skips the member too
RotateSend(u, m, ok) ==
  LET c == CurrentChannel
      sends == m \in KeyRecipients(u, c) /\ ok
  IN
  /\ rot[u].st = "send"
  /\ ~SendsDone(u)
  /\ m \in rot[u].todo
  /\ sends => Len(rpc[m]) < MaxLog
  /\ rpc' = IF sends
              THEN [rpc EXCEPT ![m] = Append(@, KeyUpdate(u, m, c, rot[u].kid, rot[u].kid))]
              ELSE rpc
  /\ rot' = [rot EXCEPT ![u].todo = @ \ {m},
                        ![u].sent = IF sends THEN @ \cup {m} ELSE @,
                        ![u].count = IF sends THEN @ + 1 ELSE @]
  /\ UNCHANGED <<nextKeyId, channel_keys, dbKeys, rotq, OtherRotVars>>

\* lines 614-616: the rotation signal is published, the count reported
RotatePublish(u) ==
  /\ rot[u].st = "send"
  /\ SendsDone(u)
  /\ RotationSignalled(CurrentChannel, rot[u].kid)
  /\ rot' = [rot EXCEPT ![u].st = "idle", ![u].ret = "done"]
  /\ UNCHANGED <<nextKeyId, channel_keys, dbKeys, rpc, OtherRotVars>>

NextRotate ==
  \/ \E c \in Channels : Expire(c)
  \/ \E u \in Users : action_connect(u)
  \/ \E u \in Users, text \in Texts : SubmitFind(u, text)
  \/ \E u \in Users : Claim(u)
  \/ \E u \in Users : ReGet(u)
  \/ \E u \in Users : Send(u)
  \/ \E u \in Users : RotateCall(u)
  \/ \E u \in Users : RotatePersist(u)
  \/ \E u \in Users : RotateMembers(u)
  \/ \E u, m \in Users, ok \in BOOLEAN : RotateSend(u, m, ok)
  \/ \E u \in Users : RotatePublish(u)
  \/ \E u \in Users : handle_rpc(u)
  \/ \E u \in Users : handle_key_rotation(u)

SpecRotate == Init /\ [][NextRotate]_vars

\* ------------------------------------------------------------------ claims
\* the data consumer of u hands the next record of topic t to its handler
Consumed(u, t) == connected[u] /\ offs[u][t] >= 0 /\ offs'[u][t] = offs[u][t] + 1
Received(u, t) == topics[t][offs[u][t] + 1]
Last(q) == q[Len(q)]
HeldKeys(u, c) == Get(channel_keys[u], c, <<>>)

\* the identities whose claim, invoked while the channel was leaderless, has
\* returned true and whose lease has not expired since
Winners == {u \in Users : lret[u] = "true" /\ lfree[u]}

\* C1: per channel at most one identity holds an unexpired lease: of the claims
\* racing for one vacancy at most one returns true, the one that does owns the
\* lease, and an unexpired lease never passes to another identity.
C1_LeaseMutualExclusion ==
  /\ [](Cardinality(Winners) <= 1 /\ \A u \in Winners : lease[CurrentChannel] = u)
  /\ [][\A c \in Channels :
          lease[c] # NoLeader => lease'[c] \in {lease[c], NoLeader}]_vars

\* two claims raced for the same vacancy: one returned true, the other false
C1_Witness ==
  \E u, v \in Users :
    /\ u # v
    /\ lfree[u] /\ lret[u] = "true"
    /\ lfree[v] /\ lret[v] = "false" /\ lcurrent[v] = u


\* C2: a node that receives a chat message republishes it to its own outbox if
\* and only if it is the channel's current leader and the sender is another
\* identity.
C2_RelayIffLeaderAndOtherSender ==
  [][\A u \in Users, t \in DataTopics :
       Consumed(u, t) =>
         ((topics'[Out(u)] # topics[Out(u)])
            <=> (lease[Received(u, t).channel] = u /\ Received(u, t).sender # u))]_vars

\* a leader's outbox holds a record of another sender (a relay), and a leader has
\* consumed a message it originated without relaying it
C2_Witness ==
  /\ \E u \in Users : \E i \in 1..Len(topics[Out(u)]) : topics[Out(u)][i].sender # u
  /\ \E u \in Users, t \in DataTopics :
       /\ lease[CurrentChannel] = u
       /\ t \in subs[u] /\ offs[u][t] >= 1
       /\ topics[t][offs[u][t]].sender = u
       /\ Cardinality({i \in 1..Len(topics[Out(u)]) :
                         topics[Out(u)][i].id = topics[t][offs[u][t]].id}) = 1

\* C3: no outbox ever holds the same message id twice: a leader that has relayed
\* a message never relays it again.
C3_NoMessageRelayedTwice ==
  \A u \in Users : \A i, j \in 1..Len(topics[Out(u)]) :
    i # j => topics[Out(u)][i].id # topics[Out(u)][j].id

\* C4: no node's data consumer is subscribed to the node's own outbox.
C4_NeverSubscribedToOwnOutbox == \A u \in Users : Out(u) \notin subs[u]

\* C5: the record a leader relays equals the record it received.
C5_RelayVerbatim ==
  [][\A u \in Users, t \in DataTopics :
       (Consumed(u, t) /\ topics'[Out(u)] # topics[Out(u)])
         => Last(topics'[Out(u)]) = Received(u, t)]_vars

\* C6: a send whose resolved leader is the sender appends the built message to the
\* sender's outbox and to no other topic; a send whose resolved leader is another
\* identity L appends it to inbox-{L} and to no other topic.
C6_SendRoutedByResolvedLeader ==
  [][\A u \in Users :
       (pc[u] = "send" /\ pc'[u] = "idle") =>
         \A t \in DataTopics :
           IF t = (IF leaderVar[u] = u THEN Out(u) ELSE Inbox(leaderVar[u]))
             THEN topics'[t] = Append(topics[t], outmsg[u])
             ELSE topics'[t] = topics[t]]_vars

\* a leader has published its own message to its outbox and another node has sent
\* one to that leader's inbox
C6_Witness ==
  \E u, v \in Users :
    /\ u # v
    /\ \E i \in 1..Len(topics[Out(v)]) : topics[Out(v)][i].sender = v
    /\ \E i \in 1..Len(topics[Inbox(v)]) : topics[Inbox(v)][i].sender = u

\* C7: every connected member of a channel other than its leader L is subscribed
\* to out-{L}.
C7_MembersSubscribedToLeaderOutbox ==
  \A c \in Channels :
    lease[c] # NoLeader =>
      \A m \in members[c] :
        (connected[m] /\ m # lease[c]) => Out(lease[c]) \in subs[m]

\* C8: a send in a leaderless channel tries the claim, and a successful claim by
\* a node that holds no key for the channel builds the message encrypted under a
\* key and key_id created by this claim, stored in the key map and made active.
C8_ClaimOriginatesKey ==
  [][\A u \in Users :
       /\ (pc[u] = "idle" /\ pc'[u] # "idle" /\ lease[CurrentChannel] = NoLeader)
            => pc'[u] = "claim"
       /\ (pc[u] = "claim" /\ pc'[u] = "send" /\ HeldKeys(u, CurrentChannel) = <<>>)
            => /\ outmsg'[u].key_id # NoKey
               /\ \A v \in Users : outmsg'[u].key_id \notin KeyIds(HeldKeys(v, CurrentChannel))
               /\ active_key_ids'[u] = Put(active_key_ids[u], CurrentChannel, outmsg'[u].key_id)
               /\ Len(channel_keys'[u][CurrentChannel]) = 1
               /\ channel_keys'[u][CurrentChannel][1].id = outmsg'[u].key_id
               /\ outmsg'[u].content =
                    Cipher(channel_keys'[u][CurrentChannel][1].key, draft[u])]_vars

\* C9: a sender whose resolved leader is another identity and who holds a key for
\* the channel builds its message as ciphertext with the key_id used.
C9_NonLeaderWithKeyEncrypts ==
  [][\A u \in Users :
       (pc[u] # "send" /\ pc'[u] = "send" /\ leaderVar'[u] # u
          /\ HeldKeys(u, CurrentChannel) # <<>>)
         => /\ outmsg'[u].content.kind = "cipher"
            /\ outmsg'[u].key_id \in KeyIds(HeldKeys(u, CurrentChannel))]_vars

\* C10: when request() returns or raises, for whatever reason, the pending table
\* holds no entry for its correlation id; once every request made has ended the
\* table is empty.
C10_RequestRemovesItsEntry ==
  /\ []((\A r \in DOMAIN reqst : reqst[r].pc = "done") => pending = Empty)
  /\ [][\A r \in DOMAIN reqst' :
          ((r \notin DOMAIN reqst \/ reqst[r].pc # "done") /\ reqst'[r].pc = "done")
            => reqst'[r].cid \notin DOMAIN pending']_vars

\* every request made has timed out and the table is empty
C10_Witness ==
  /\ Len(reqst) = MaxReqs
  /\ \A r \in DOMAIN reqst : reqst[r].outcome = "timeout"
  /\ pending = Empty

\* the RPC consume loop of the requesting client takes the next record
RpcConsumed == rpc[Requester] # <<>> /\ rpc'[Requester] = Tail(rpc[Requester])

\* C11: an inbound RPC record whose correlation id has a pending waiter reaches
\* that waiter only: no handler receives it, no other waiter changes, the waiter
\* goes from unfulfilled to fulfilled at most once, and a fulfilled waiter stays
\* fulfilled whatever further records carry its correlation id.
C11_MatchingResponseToWaiterOnly ==
  [][/\ (RpcConsumed /\ Head(rpc[Requester]).correlation_id \in DOMAIN pending)
          => /\ handled' = handled
             /\ \A r \in DOMAIN reqst :
                  reqst'[r] # reqst[r]
                    => /\ r = pending[Head(rpc[Requester]).correlation_id]
                       /\ reqst[r].fut = "pending"
                       /\ reqst'[r] = [reqst[r] EXCEPT !.fut = "done"]
     /\ \A r \in DOMAIN reqst :
          reqst[r].fut = "done" => reqst'[r].fut = "done"]_vars

\* two requests share a correlation id; both were answered and both answers
\* consumed: the registered waiter is fulfilled, the second answer found it done,
\* and no handler saw either
C11_Witness ==
  \E r1, r2 \in DOMAIN reqst :
    /\ r1 # r2
    /\ reqst[r1].cid = reqst[r2].cid
    /\ reqst[r1].pc = "wait" /\ reqst[r2].pc = "wait"
    /\ reqst[r1].fut = "pending" /\ reqst[r2].fut = "done"
    /\ rpc[Requester] = <<>> /\ rpc[Responder] = <<>>
    /\ handled = <<>>

\* C12: the history fetch a member makes on connecting to a channel led by
\* another connected node is sent to rpc-in-{L}, answered by L and completed by
\* the answer: it never ends in failure.
C12_HistoryFetchAnswered ==
  \A u \in Users :
    (hist[u].leader \notin {NoLeader, u} /\ connected[hist[u].leader])
      => hist[u].st \in {"spawned", "waiting", "synced"}

\* C13: a rotation called by a node that the leader read does not name is
\* rejected: no key id is drawn, the caller's key map and durable key store stay
\* as they are, no record is sent and no rotation signal is published.
C13_NonLeaderRotateRejected ==
  [][\A u \in Users :
       (/\ rot[u].st = "idle"
        /\ get_channel_leader(CurrentChannel) # u
        /\ (rot'[u].st # "idle" \/ rot'[u].ret # rot[u].ret))
         => /\ rot'[u].st = "idle"
            /\ rot'[u].ret = "denied"
            /\ UNCHANGED <<nextKeyId, channel_keys, dbKeys, rpc, rotq, topics>>]_vars

\* a connected node whose rotation was rejected while another node held the lease
C13_Witness ==
  \E u \in Users :
    /\ rot[u].ret = "denied"
    /\ lease[CurrentChannel] \notin {u, NoLeader}
    /\ nextKeyId = 2
    /\ dbKeys[u] = Empty

\* C14: for one channel, two rotations called by different nodes whose calls
\* overlap never both succeed, each having stored a new key and published its
\* rotation signal, whatever the interleaving with lease expiry and re-claim.
C14_NoTwoRotationsSucceed ==
  \A u, v \in Users :
    u # v => ~(/\ rot[u].ret = "done" /\ rot[v].ret = "done"
               /\ v \in rot[u].peer /\ u \in rot[v].peer
               /\ rot[u].kid \in KeyIds(Get(channel_keys[u], CurrentChannel, <<>>))
               /\ rot[v].kid \in KeyIds(Get(channel_keys[v], CurrentChannel, <<>>))
               /\ rot[u].kid # rot[v].kid)

\* C15: a rotation that completed has sent one channel_key_update to every
\* member it read, other than the caller, whose public key the caller holds,
\* none to any other member, and reports the number of updates sent.
C15_RotateSendsToEveryKeyedMember ==
  \A u \in Users :
    rot[u].ret = "done" =>
      /\ rot[u].sent = {m \in rot[u].list : m # u /\ m \in contacts[u]}
      /\ rot[u].count = Cardinality(rot[u].sent)

\* C16: a rotation signal is published only by a rotation whose new key is in
\* the caller's key map and whose loop over the members has taken every member;
\* the signal names that rotation's key_id, which the rotating node holds.
C16_SignalAfterStoreAndSends ==
  [][\A v \in Users :
       Len(rotq'[v]) > Len(rotq[v]) =>
         \E u \in Users :
           /\ rot[u].st = "send" /\ rot'[u].ret = "done"
           /\ rot[u].todo = {}
           /\ rotq'[v][Len(rotq'[v])] = [channel |-> CurrentChannel, key_id |-> rot[u].kid]
           /\ rot[u].kid \in KeyIds(Get(channel_keys[u], CurrentChannel, <<>>))]_vars

\* bob holds the signal of alice's completed rotation, whose update he was sent
C16_Witness ==
  /\ rot["alice"].ret = "done"
  /\ rot["alice"].sent = {"bob"}
  /\ rotq["bob"] # <<>>
  /\ rotq["bob"][Len(rotq["bob"])].key_id = rot["alice"].kid
  /\ \E i \in 1..Len(rpc["bob"]) : rpc["bob"][i].key_id = rot["alice"].kid

\* C17: no record on a broker topic and no event on a pub/sub stream holds a
\* channel key unsealed: every channel_key_update holds the key sealed to the
\* public key of its recipient, a rotation signal holds channel and key_id
\* only, and a chat message holds no key.
C17_NoUnsealedKeyInTransit ==
  /\ \A u \in Users : \A i \in 1..Len(rpc[u]) :
       rpc[u][i].type = "channel_key_update" =>
         /\ rpc[u][i].sealedTo \in Users
         /\ rpc[u][i].sealedTo = rpc[u][i].recipient
  /\ \A u \in Users : \A i \in 1..Len(rotq[u]) :
       DOMAIN rotq[u][i] = {"channel", "key_id"}
  /\ \A t \in DataTopics : \A i \in 1..Len(topics[t]) :
       "key" \notin DOMAIN topics[t][i]

\* a sealed update and a rotation signal of the same key in flight, and an
\* encrypted chat message on a topic
C17_Witness ==
  /\ \E i \in 1..Len(rpc["bob"]) :
       rpc["bob"][i].sealedTo = "bob" /\ rpc["bob"][i].key # NoKey
  /\ \E v \in Users : rotq[v] # <<>>
  /\ \E t \in DataTopics : \E i \in 1..Len(topics[t]) :
       topics[t][i].content.kind = "cipher"

\* the key ids present anywhere for the channel: in a key map, a durable key
\* store, an update or a signal in flight, an active key id, a rotation under way
KnownKeyIds ==
  LET c == CurrentChannel
  IN UNION {KeyIds(Get(channel_keys[u], c, <<>>)) \cup KeyIds(Get(dbKeys[u], c, <<>>))
            \cup {rpc[u][i].key_id : i \in 1..Len(rpc[u])}
            \cup {rotq[u][i].key_id : i \in 1..Len(rotq[u])}
            \cup {Get(active_key_ids[u], c, NoKey), rot[u].kid} : u \in Users} \ {NoKey}

\* C18: the key_id created by a rotation, and by key origination on claim,
\* differs from every key_id issued before for the channel (uuid4 taken to
\* return a value it has not returned before).
C18_KeyIdNeverReused ==
  [][\A u \in Users :
       /\ (rot[u].st = "idle" /\ rot'[u].st = "persist")
            => rot'[u].kid \notin KnownKeyIds
       /\ (pc[u] = "claim" /\ pc'[u] = "send" /\ NeedsKey(u, CurrentChannel))
            => active_key_ids'[u][CurrentChannel] \notin KnownKeyIds]_vars

\* three ids issued for the channel, by an origination and two rotations, all
\* held by one node
C18_Witness ==
  \E u \in Users :
    /\ Len(Get(channel_keys[u], CurrentChannel, <<>>)) = 3
    /\ rot[u].kid = 3 /\ rot[u].ret = "done"

\* C19: a channel_key_update that carries no key_id or that the node's private
\* key does not open is typingFailed: consuming it leaves the node's key map and
\* durable key store as they were.
C19_MalformedKeyUpdateDropped ==
  [][\A u \in Users :
       (/\ connected[u] /\ rpc[u] # <<>> /\ rpc'[u] = Tail(rpc[u])
        /\ Head(rpc[u]).type = "channel_key_update"
        /\ (Head(rpc[u]).sealedTo # u \/ Head(rpc[u]).key_id = NoKey))
         => /\ channel_keys'[u] = channel_keys[u]
            /\ dbKeys'[u] = dbKeys[u]]_vars

\* none of the keys u holds for the channel of m decrypts the content of m
NoKeyOpens(u, m) ==
  \A i \in 1..Len(HeldKeys(u, m.channel)) : HeldKeys(u, m.channel)[i].key # m.content.key

\* C20: a received chat message whose content is ciphertext and that no key of
\* the receiver decrypts is persisted with the locked placeholder as content,
\* never with the ciphertext.
C20_UndecryptableStoredLocked ==
  [][\A u \in Users, t \in DataTopics :
       (/\ Consumed(u, t)
        /\ Received(u, t).content.kind = "cipher"
        /\ NoKeyOpens(u, Received(u, t)))
         => \A r \in saved'[u] \ saved[u] : r.content \in {LockedStream, LockedMissing}]_vars

\* C21: a received ciphertext whose key_id is in the receiver's key map for the
\* channel is decrypted with exactly the key of that id; when the key_id is
\* absent or unknown, the first key the map holds for the channel is tried.
C21_KeyOfKeyIdUsed ==
  [][\A u \in Users, t \in DataTopics :
       (/\ Consumed(u, t)
        /\ Received(u, t).content.kind = "cipher"
        /\ HeldKeys(u, Received(u, t).channel) # <<>>)
         => LET m == Received(u, t)
                ks == HeldKeys(u, m.channel)
                key == IF m.key_id \in KeyIds(ks) THEN ks[KeyOf(ks, m.key_id)].key
                                                  ELSE ks[1].key
            IN \A r \in saved'[u] \ saved[u] :
                 r.content = IF key = m.content.key THEN Plain(m.content.text)
                                                    ELSE LockedStream]_vars

\* a node holding two keys has read, and stored in the clear, a message
\* encrypted under its second key
C21_Witness ==
  \E u \in Users, t \in DataTopics :
    \E i \in 1..Len(topics[t]) :
      LET m == topics[t][i]
          ks == HeldKeys(u, m.channel)
      IN /\ offs[u][t] >= i
         /\ m.content.kind = "cipher"
         /\ Len(ks) = 2 /\ ks[2].id = m.key_id /\ ks[2].key = m.content.key
         /\ [id |-> m.id, content |-> Plain(m.content.text)] \in saved[u]

\* C22: a history reply sent by a node that holds the requester's public key
\* carries the page sealed to that key, is_encrypted = true, whatever the number
\* of messages in the page.
C22_HistorySealedWhenKeyHeld ==
  \A v \in Users : \A i \in 1..Len(rpc[v]) :
    (rpc[v][i].type = "history_data" /\ rpc[v][i].recipient \in contacts[rpc[v][i].sender])
      => /\ rpc[v][i].payload.is_encrypted
         /\ "messages" \notin DOMAIN rpc[v][i].payload

C24_TypingFailureDoesNotAbortSend ==
  [][\A u \in Users :
       typingFailed'[u] > typingFailed[u] => pc'[u] \in {"claim", "reget", "send"}]_vars

\* C25: register_channel_leader called by the identity that owns the lease
\* finds the key set, reads itself, restarts the TTL and returns true; called by
\* another identity while the lease is held it returns false; in neither case
\* does the owner of the lease change.
C25_OwnerRenewsOtherRefused ==
  [][\A u \in Users :
       LET c == CurrentChannel
           own == lease[c]
       IN /\ (lpc[u] = "set" /\ lpc'[u] # "set" /\ own # NoLeader)
               => lpc'[u] = "get" /\ lease' = lease
          /\ (lpc[u] = "get" /\ lpc'[u] # "get" /\ own = u)
               => lpc'[u] = "expire" /\ lease' = lease
          /\ (lpc[u] = "get" /\ lpc'[u] # "get" /\ own \notin {u, NoLeader})
               => lpc'[u] = "idle" /\ lret'[u] = "false" /\ lease' = lease /\ ttl' = ttl
          /\ (lpc[u] = "expire" /\ lpc'[u] # "expire" /\ own = u)
               => /\ lpc'[u] = "idle" /\ lret'[u] = "true"
                  /\ lease' = lease /\ ttl'[c] = TtlTicks]_vars

\* the owner's renewal has returned true with the TTL restarted, and the other
\* identity's claim has returned false on reading the owner
C25_Witness ==
  \E u, v \in Users :
    /\ u # v
    /\ lease[CurrentChannel] = u /\ ttl[CurrentChannel] = TtlTicks
    /\ lret[u] = "true" /\ ~lsuccess[u] /\ lcurrent[u] = u
    /\ lret[v] = "false" /\ lcurrent[v] = u

\* C26: the DEL of resign_channel_leader called by U removes a lease only if U
\* owns it at that moment: a lease owned by another identity is left in place.
C26_ResignRemovesOwnLeaseOnly ==
  \A u \in Users : rdel[u] \in {"nothing", NoLeader, u}

\* C27: every lease has a running TTL; when the TTL runs out without a renewal
\* the lease expires, get_channel_leader then returns no leader, and the next
\* claim of any identity sets the key and returns true, making it the leader.
C27_UnrenewedLeaseExpires ==
  /\ [](\A c \in Channels :
          /\ lease[c] # NoLeader => ttl[c] \in 1..TtlTicks
          /\ ttl[c] = 0 => get_channel_leader(c) = NoLeader)
  /\ [][\A c \in Channels :
          (ttl[c] = 1 /\ ttl'[c] = 0) => lease'[c] = NoLeader]_vars
  /\ [][\A u \in Users :
          (lpc[u] = "set" /\ lpc'[u] # "set" /\ get_channel_leader(CurrentChannel) = NoLeader)
            => /\ lease'[CurrentChannel] = u /\ ttl'[CurrentChannel] = TtlTicks
               /\ lpc'[u] = "idle" /\ lret'[u] = "true"]_vars

\* u's claim set the key; the lease ran out and v's later claim set it anew
C27_Witness ==
  \E u, v \in Users :
    /\ u # v
    /\ lret[u] = "true" /\ lsuccess[u] /\ ~lfree[u]
    /\ lret[v] = "true" /\ lsuccess[v] /\ lfree[v]
    /\ lease[CurrentChannel] = v
    /\ \A w \in Users : rpos[w] = "idle" /\ rdel[w] = "nothing"

\* ------------------------------------------------------------------ C28
\* the loop l takes a record that decodes and that no waiter claims
TakesForHandlers(l) ==
  /\ cpos'[l] = cpos[l] + 1
  /\ Decodes(crecs[l][cpos'[l]])
  /\ ~(l = "rpc" /\ Matches(crecs[l][cpos'[l]]))

C29_UndecodableRecordDropped ==
  [][\A l \in {"data", "rpc"} :
       (cpos'[l] = cpos[l] + 1 /\ ~Decodes(crecs[l][cpos'[l]])) =>
         /\ calls' = calls
         /\ reqst' = reqst
         /\ calive'[l]]_vars

\* the data loop dropped an undecodable first record and dispatched the second
C29_Witness ==
  /\ cpos["data"] = 2
  /\ crecs["data"][1] = Undecodable
  /\ Len(calls["data"]) = Len(HandlerList)
  /\ calls["data"][1].rec = 2

\* ------------------------------------------------------------------ C30
\* C30: an exception raised by a presence, typing, rotation, channel-event or
\* notification handler never ends the pub/sub loop, and the events published
\* afterwards are still decoded and dispatched: every pass of the loop that
\* takes a message leaves the loop running, and a message that decodes is
\* handed to the first registered handler of its stream.
C30_PubSubLoopSurvivesHandlers ==
  [][cpos'["pubsub"] = cpos["pubsub"] + 1 =>
       /\ calive'["pubsub"]
       /\ Decodes(crecs["pubsub"][cpos'["pubsub"]]) =>
            /\ Len(calls'["pubsub"]) > Len(calls["pubsub"])
            /\ calls'["pubsub"][Len(calls["pubsub"]) + 1].h = HandlerList[1]
            /\ calls'["pubsub"][Len(calls["pubsub"]) + 1].rec = cpos'["pubsub"]]_vars

\* the first rotation handler raised on the first event, outside any
\* try/except of _handle_message, and the second event, of the typing stream,
\* was dispatched
C30_Witness ==
  /\ cpos["pubsub"] = 2
  /\ crecs["pubsub"] = <<Event("rotation"), Event("typing")>>
  /\ calls["pubsub"][1] = [h |-> HandlerList[1], rec |-> 1, raised |-> TRUE]
  /\ Len(calls["pubsub"]) >= 2
  /\ calls["pubsub"][2].rec = 2

\* ------------------------------------------------------------------ C31
\* the (key_id, key) pairs a map holds for a channel
Entries(d, c) == {Get(d, c, <<>>)[i] : i \in 1..Len(Get(d, c, <<>>))}

\* C31: every key of a node's in-memory channel-key map has a sealed copy in
\* the node's durable key store, so that the next connect restores the same
\* (channel, key_id) -> key map.
C31_EveryHeldKeyPersisted ==
  \A u \in Users : \A c \in Channels :
    Entries(channel_keys[u], c) \subseteq Entries(dbKeys[u], c)

\* ------------------------------------------------------------------ C32
\* the key the map d binds (c, kid) to
BoundKey(d, c, kid) == Get(d, c, <<>>)[KeyOf(Get(d, c, <<>>), kid)].key

\* C32: once a node's key map binds (channel, key_id) to a key, no operation
\* (an incoming key update, a rotation, key origination) rebinds that
\* (channel, key_id) to a different key.
C32_KeyIdNeverRebound ==
  [][\A u \in Users : \A c \in Channels :
       \A kid \in KeyIds(Get(channel_keys[u], c, <<>>)) \cap KeyIds(Get(channel_keys'[u], c, <<>>)) :
         BoundKey(channel_keys'[u], c, kid) = BoundKey(channel_keys[u], c, kid)]_vars

\* ------------------------------------------------------------------ C33
\* C33: for every message whose type is a member of the envelope type set,
\* fetch_history, history_data and channel_key_update included, decoding the
\* encoding of the message yields a message with the same id, type, sender,
\* recipient, timestamp, correlation_id and payload: no set of envelope fields
\* is rejected, and the message decoded carries each field as it was given.
C33_RoundTripPreservesEnvelope ==
  /\ codec.st # "rejected"
  /\ codec.st = "decoded" =>
       /\ codec.out # Invalid
       /\ FieldOf(codec.out, "type").v = codec.fields["type"].v
       /\ \A x \in EnvelopeFields \ {"type"} : FieldOf(codec.out, x) = codec.fields[x]

\* ------------------------------------------------------------------ C34
\* the call of u that ends with this step
Completes(u, op) == mpc[u].op = op /\ mpc'[u] = NoCall

\* C34: when join(channel) of U completes, members(channel) contains U; when
\* leave(channel) of U completes, members(channel) does not contain U; no step
\* of either changes the membership of another identity; and each call emits
\* one join or leave event naming U on the event stream of the channel and
\* none on another.
C34_JoinLeaveMembership ==
  [][\A u \in Users :
       /\ Completes(u, "join") => u \in members'[mpc[u].channel]
       /\ Completes(u, "leave") => u \notin members'[mpc[u].channel]
       /\ mpc'[u] # mpc[u] =>
            /\ \A c \in Channels : members'[c] \ {u} = members[c] \ {u}
            /\ \A v \in Users \ {u} : mpc'[v] = mpc[v]
       /\ \A op \in {"join", "leave"} :
            Completes(u, op) =>
              /\ events'[mpc[u].channel] = Append(events[mpc[u].channel], ChannelEvent(op, u))
              /\ \A c \in Channels \ {mpc[u].channel} : events'[c] = events[c]
       /\ (mpc[u] = NoCall /\ mpc'[u] # NoCall) => events' = events]_vars

\* alice joined and then left while bob was a member: bob is still one, alice
\* is none, and the stream carries her join and her leave
C34_Witness ==
  /\ get_channel_members(CurrentChannel) = {"bob"}
  /\ \A u \in Users : mpc[u] = NoCall
  /\ events[CurrentChannel] =
       <<ChannelEvent("join", "bob"), ChannelEvent("join", "alice"),
         ChannelEvent("leave", "alice")>>

\* ------------------------------------------------------------------ C35
\* C35: whenever register_channel_leader returns true to U, the lease of the
\* channel names U as its owner at the moment the call completes, whatever
\* expiry and claims of other nodes fall between its set-if-absent, read and
\* expire steps.
C35_TrueMeansOwner ==
  [][\A u \in Users :
       (lpc[u] # "idle" /\ lpc'[u] = "idle" /\ lret'[u] = "true")
         => lease'[CurrentChannel] = u]_vars

\* ------------------------------------------------------------------ C36
\* u has published a message of its own to its outbox, or is about to
PublishesAsLeader(u) ==
  \/ pc[u] = "send" /\ leaderVar[u] = u
  \/ \E i \in 1..Len(topics[Out(u)]) : topics[Out(u)][i].sender = u

\* C36: when nodes send in a leaderless channel concurrently and no lease
\* expires meanwhile, the claim of exactly one succeeds and that node publishes
\* to its own outbox; a node whose claim fails resolves the winner and sends to
\* the winner's inbox; two nodes never both publish as leader.
C36_OneClaimWinsOtherSendsToWinner ==
  /\ [](\A u \in Users :
          /\ PublishesAsLeader(u) => lease[CurrentChannel] = u
          /\ \A v \in Users :
               (\E i \in 1..Len(topics[Inbox(v)]) : topics[Inbox(v)][i].sender = u)
                 => (v # u /\ lease[CurrentChannel] = v))
  /\ [][\A u \in Users :
          /\ (pc[u] = "claim" /\ pc'[u] # "claim") =>
               IF lease[CurrentChannel] = NoLeader
                 THEN lease'[CurrentChannel] = u /\ pc'[u] = "send" /\ leaderVar'[u] = u
                 ELSE lease' = lease /\ pc'[u] = "reget"
          /\ (pc[u] = "reget" /\ pc'[u] # "reget") =>
               /\ pc'[u] = "send"
               /\ leaderVar'[u] = lease[CurrentChannel]
               /\ leaderVar'[u] \notin {u, NoLeader}]_vars

\* both nodes found the channel leaderless; alice's claim succeeded and she
\* published to her outbox, bob's claim failed and he sent to her inbox
C36_Witness ==
  /\ draft["alice"] \in Texts /\ draft["bob"] \in Texts
  /\ lret = [u \in Users |-> "none"]
  /\ \E i \in 1..Len(topics[Out("alice")]) : topics[Out("alice")][i].sender = "alice"
  /\ pc["bob"] = "reget"

\* ------------------------------------------------------------------ C37
\* the last rotation of u has completed and no key was created since
RotatedLast(u) ==
  /\ rot[u].st = "idle" /\ rot[u].ret = "done"
  /\ nextKeyId = rot[u].kid + 1

\* C37: after rotate(channel) has completed at leader L, L's active key id for
\* the channel is the key_id the rotation created: a chat message L builds
\* afterwards is encrypted under the new key and carries the new key_id.
C37_LeaderSendsUnderRotatedKey ==
  [][\A u \in Users :
       (/\ RotatedLast(u)
        /\ lease[CurrentChannel] = u
        /\ pc[u] # "send" /\ pc'[u] = "send")
         => /\ outmsg'[u].key_id = rot[u].kid
            /\ outmsg'[u].content = Cipher(rot[u].kid, outmsg'[u].content.text)]_vars

\* ------------------------------------------------------------------ C38
\* the map d binds (c, kid) to the key k
Binds(d, c, kid, k) == kid \in KeyIds(Get(d, c, <<>>)) /\ BoundKey(d, c, kid) = k

\* a channel_key_update with the key kid, sealed to m, waits on rpc-in-{m}
UpdateInFlight(m, kid) ==
  \E i \in 1..Len(rpc[m]) :
    rpc[m][i].type = "channel_key_update" /\ rpc[m][i].key_id = kid /\ rpc[m][i].sealedTo = m

\* C38: after rotate(channel) by leader L has completed, every connected member
\* L read whose public key L holds gets the new key: the channel_key_update for
\* it is on rpc-in-{member} until the member's RPC consumer takes it, and from
\* then on the member's key map and durable store bind (channel, key_id) to the
\* new key.
C38_RotatedKeyReachesMembers ==
  \A u \in Users :
    (rot[u].st = "idle" /\ rot[u].ret = "done") =>
      \A m \in rot[u].list :
        (connected[m] /\ m # u /\ m \in contacts[u]) =>
          \/ UpdateInFlight(m, rot[u].kid)
          \/ /\ Binds(channel_keys[m], CurrentChannel, rot[u].kid, rot[u].kid)
             /\ Binds(dbKeys[m], CurrentChannel, rot[u].kid, rot[u].kid)

\* ------------------------------------------------------------------ C39
\* C39: the plaintext of a chat message that its sender encrypted never appears
\* in a record of a broker topic: no record on any inbox or outbox with the id
\* of a message that was sent as ciphertext carries the text in the clear.
C39_NoPlaintextOfEncryptedOnBroker ==
  \A t1, t2 \in DataTopics :
    \A i \in 1..Len(topics[t1]) : \A j \in 1..Len(topics[t2]) :
      (topics[t1][i].content.kind = "cipher" /\ topics[t2][j].id = topics[t1][i].id)
        => topics[t2][j].content # Plain(topics[t1][i].content.text)

\* ------------------------------------------------------------------ C40
\* C40: every id next_id returns is strictly greater than every id the
\* generator returned before, whatever the clock reads and whichever caller
\* holds the lock: a reading earlier than last_timestamp yields an error, no
\* id and no change of the generator, and a sequence exhausted within one
\* millisecond waits for a later millisecond and starts again at 0.
C40_IdsStrictlyIncrease ==
  [][/\ snow'.res = "id" => snow'.id > snow.id
     /\ snow'.res = "error" <=> snow'.read < snow.last_timestamp
     /\ snow'.res = "error" =>
          /\ snow'.last_timestamp = snow.last_timestamp
          /\ snow'.sequence = snow.sequence
          /\ snow'.id = snow.id
     /\ (snow'.read = snow.last_timestamp /\ snow.sequence = sequence_mask) =>
          /\ snow'.last_timestamp > snow.last_timestamp
          /\ snow'.sequence = 0]_vars

\* the sequence of one millisecond was exhausted and the call waited for the
\* next millisecond
C40_Witness ==
  /\ snow.res = "id"
  /\ snow.read = 0 /\ snow.last_timestamp = 1 /\ snow.sequence = 0
  /\ snow.id = ComposeId(1, 0)

====
